---- MODULE Spec2Model ----
(***************************************************************************)
(* Feature plugin system of BS-2: configuration layering, the load phase   *)
(* of FeatureManager, its public operations, and the invocation bridge     *)
(* (app/bridge.py) that normalises feature results into an envelope.       *)
(*                                                                         *)
(* Python values are tagged records so that values of different Python     *)
(* types can be compared:                                                  *)
(*   [t |-> "none"]            None                                        *)
(*   [t |-> "bool", b |-> ..]  True / False                                *)
(*   [t |-> "int",  n |-> ..]  an int                                      *)
(*   [t |-> "str",  s |-> ..]  a str (a TLA+ string, handled by character) *)
(*   [t |-> "dict", d |-> ..]  a dict with str keys (a function)           *)
(*   [t |-> "list", l |-> ..]  a list (a sequence)                         *)
(*   [t |-> "object", name |-> ..]  any object json.dumps() rejects        *)
(***************************************************************************)
EXTENDS FiniteSets, Integers, Sequences, TLC

\* ------------------------------------------------------------------------
\* Bounds of the model
\* ------------------------------------------------------------------------
\* longest FEATURE_DEFINITIONS mapping the load phase is run on
MaxFeatures == 3
\* longest FEATURE_DEFINITIONS mapping behind a manager that serves requests
MaxServed == 2

\* ------------------------------------------------------------------------
\* Python values
\* ------------------------------------------------------------------------
PyNone == [t |-> "none"]
PyBool(b) == [t |-> "bool", b |-> b]
PyInt(n) == [t |-> "int", n |-> n]
PyStr(s) == [t |-> "str", s |-> s]
PyDict(d) == [t |-> "dict", d |-> d]
PyList(l) == [t |-> "list", l |-> l]
PyObject(name) == [t |-> "object", name |-> name]

EmptyDict == <<>>

\* d[k] = v on a dict held as a function
DictSet(d, k, v) == [x \in (DOMAIN d) \cup {k} |-> IF x = k THEN v ELSE d[x]]

\* a Python exception object; str(e) is the repr of the key for a KeyError
\* raised by a failed dict lookup, and the message otherwise
PyExc(cls, msg) == [cls |-> cls, msg |-> msg]

\* character `i` of a str and the tail from `i`
CharAt(s, i) == SubSeq(s, i, i)
From(s, i) == SubSeq(s, i, Len(s))

\* str.startswith(prefix)
StartsWith(s, prefix) == Len(s) >= Len(prefix) /\ SubSeq(s, 1, Len(prefix)) = prefix

\* `sub in s` for two str
StrContains(s, sub) ==
    \E i \in 1..(Len(s) + 1) :
        i + Len(sub) - 1 <= Len(s) /\ SubSeq(s, i, i + Len(sub) - 1) = sub

RECURSIVE LStrip(_)
LStrip(s) == IF Len(s) > 0 /\ CharAt(s, 1) = " " THEN LStrip(From(s, 2)) ELSE s

RECURSIVE RStrip(_)
RStrip(s) ==
    IF Len(s) > 0 /\ CharAt(s, Len(s)) = " " THEN RStrip(SubSeq(s, 1, Len(s) - 1)) ELSE s

\* str.strip()
Strip(s) == RStrip(LStrip(s))

\* ------------------------------------------------------------------------
\* json.dumps / str() / json.loads, on the values above
\* ------------------------------------------------------------------------
\* json.dumps(v) succeeds
RECURSIVE IsJsonable(_)
IsJsonable(v) ==
    CASE v.t = "dict" -> \A k \in DOMAIN v.d : IsJsonable(v.d[k])
      [] v.t = "list" -> \A i \in DOMAIN v.l : IsJsonable(v.l[i])
      [] v.t = "object" -> FALSE
      [] OTHER -> TRUE

\* repr(v); the items of a dict are listed in an arbitrary fixed order
RECURSIVE PyRepr(_)
RECURSIVE DictItemsRepr(_, _)
RECURSIVE ListItemsRepr(_, _)
PyRepr(v) ==
    CASE v.t = "none" -> "None"
      [] v.t = "bool" -> (IF v.b THEN "True" ELSE "False")
      [] v.t = "int" -> ToString(v.n)
      [] v.t = "str" -> "'" \o v.s \o "'"
      [] v.t = "dict" -> "{" \o DictItemsRepr(v.d, DOMAIN v.d) \o "}"
      [] v.t = "list" -> "[" \o ListItemsRepr(v.l, 1) \o "]"
      [] OTHER -> "<" \o v.name \o " object>"
DictItemsRepr(d, keys) ==
    IF keys = {} THEN ""
    ELSE LET k == CHOOSE x \in keys : TRUE
         IN  "'" \o k \o "': " \o PyRepr(d[k])
                 \o (IF keys \ {k} = {} THEN "" ELSE ", " \o DictItemsRepr(d, keys \ {k}))
ListItemsRepr(l, i) ==
    IF i > Len(l) THEN ""
    ELSE PyRepr(l[i]) \o (IF i = Len(l) THEN "" ELSE ", " \o ListItemsRepr(l, i + 1))

\* str(v): a str is itself, anything else its repr
PyStrOf(v) == IF v.t = "str" THEN v.s ELSE PyRepr(v)

\* str(e) of an exception
ExcStr(e) == IF e.cls = "KeyError" THEN PyRepr(e.msg) ELSE PyStrOf(e.msg)

Digits == {"0", "1", "2", "3", "4", "5", "6", "7", "8", "9"}
DigitVal(c) == CHOOSE n \in 0..9 : ToString(n) = c

ParseFail == [ok |-> FALSE, v |-> PyNone, rest |-> ""]
ParseOk(v, rest) == [ok |-> TRUE, v |-> v, rest |-> rest]

\* index of the first `"` of s at or after i, 0 when there is none
RECURSIVE ScanQuote(_, _)
ScanQuote(s, i) ==
    IF i > Len(s) THEN 0
    ELSE IF CharAt(s, i) = "\"" THEN i
    ELSE ScanQuote(s, i + 1)

\* s begins with `"`: the JSON string up to the closing quote (no escapes)
ParseString(s) ==
    LET j == ScanQuote(s, 2)
    IN  IF Len(s) = 0 \/ CharAt(s, 1) # "\"" \/ j = 0 THEN ParseFail
        ELSE ParseOk(PyStr(SubSeq(s, 2, j - 1)), From(s, j + 1))

RECURSIVE ParseDigits(_, _)
ParseDigits(s, acc) ==
    IF Len(s) > 0 /\ CharAt(s, 1) \in Digits
    THEN ParseDigits(From(s, 2), 10 * acc + DigitVal(CharAt(s, 1)))
    ELSE ParseOk(PyInt(acc), s)

\* recursive-descent parser of the JSON texts the model uses: objects,
\* arrays, strings without escapes, unsigned integers, true/false/null
RECURSIVE ParseValue(_)
RECURSIVE ParseMembers(_, _)
RECURSIVE ParseElements(_, _)
ParseValue(s0) ==
    LET s == LStrip(s0)
    IN  IF Len(s) = 0 THEN ParseFail
        ELSE IF StartsWith(s, "true") THEN ParseOk(PyBool(TRUE), From(s, 5))
        ELSE IF StartsWith(s, "false") THEN ParseOk(PyBool(FALSE), From(s, 6))
        ELSE IF StartsWith(s, "null") THEN ParseOk(PyNone, From(s, 5))
        ELSE IF CharAt(s, 1) = "\"" THEN ParseString(s)
        ELSE IF CharAt(s, 1) \in Digits THEN ParseDigits(s, 0)
        ELSE IF CharAt(s, 1) = "{" THEN
            LET b == LStrip(From(s, 2))
            IN  IF StartsWith(b, "}") THEN ParseOk(PyDict(EmptyDict), From(b, 2))
                ELSE ParseMembers(b, EmptyDict)
        ELSE IF CharAt(s, 1) = "[" THEN
            LET b == LStrip(From(s, 2))
            IN  IF StartsWith(b, "]") THEN ParseOk(PyList(<<>>), From(b, 2))
                ELSE ParseElements(b, <<>>)
        ELSE ParseFail
ParseMembers(s, d) ==
    LET kr == ParseString(LStrip(s))
        s2 == LStrip(kr.rest)
        vr == ParseValue(From(s2, 2))
        s3 == LStrip(vr.rest)
        d2 == DictSet(d, kr.v.s, vr.v)
    IN  IF ~kr.ok \/ ~StartsWith(s2, ":") THEN ParseFail
        ELSE IF ~vr.ok THEN ParseFail
        ELSE IF StartsWith(s3, ",") THEN ParseMembers(From(s3, 2), d2)
        ELSE IF StartsWith(s3, "}") THEN ParseOk(PyDict(d2), From(s3, 2))
        ELSE ParseFail
ParseElements(s, l) ==
    LET vr == ParseValue(s)
        s3 == LStrip(vr.rest)
        l2 == Append(l, vr.v)
    IN  IF ~vr.ok THEN ParseFail
        ELSE IF StartsWith(s3, ",") THEN ParseElements(From(s3, 2), l2)
        ELSE IF StartsWith(s3, "]") THEN ParseOk(PyList(l2), From(s3, 2))
        ELSE ParseFail

\* json.loads(s): the parsed value, or a failure (JSONDecodeError)
json_loads(s) ==
    LET r == ParseValue(s)
    IN  IF r.ok /\ LStrip(r.rest) = "" THEN r ELSE ParseFail

\* truth value of a Python value (`if v:` / `not v`)
Truthy(v) ==
    CASE v.t = "none" -> FALSE
      [] v.t = "bool" -> v.b
      [] v.t = "int" -> v.n # 0
      [] v.t = "str" -> v.s # ""
      [] v.t = "dict" -> DOMAIN v.d # {}
      [] v.t = "list" -> Len(v.l) > 0
      [] OTHER -> TRUE

\* ------------------------------------------------------------------------
\* Configuration layer (app/core/feature_manager.py, helper methods)
\* ------------------------------------------------------------------------
\* for key, value in defaults.items(): config.setdefault(key, value)
apply_defaults(config, defaults) ==
    [k \in (DOMAIN config) \cup (DOMAIN defaults) |->
        IF k \in DOMAIN config THEN config[k] ELSE defaults[k]]

\* a slip of apply_overrides: the `if key in config` test is missing
apply_overrides_unguarded(config, overrides) ==
    [k \in (DOMAIN config) \cup (DOMAIN overrides) |->
        IF k \in DOMAIN overrides THEN overrides[k] ELSE config[k]]

\* for key, value in overrides.items(): if key in config: config[key] = value
apply_overrides(config, overrides) ==
    [k \in DOMAIN config |-> IF k \in DOMAIN overrides THEN overrides[k] ELSE config[k]]

\* the two calls load_features makes for each feature
EffectiveConfig(defaults, overrides) ==
    apply_overrides(apply_defaults(EmptyDict, defaults), overrides)

\* app/core/defaults.py
DEFAULTS ==
    [enabled |-> PyBool(TRUE), cached |-> PyBool(FALSE), display_name |-> PyStr(""),
     version |-> PyStr("v1_0"), description |-> PyStr(""), icon |-> PyStr("puzzle")]

\* ------------------------------------------------------------------------
\* Feature modules: what a plugin module found on the import path does
\* ------------------------------------------------------------------------
\* a callable of a feature (an action, a self_test or a shutdown): what one
\* call of it returns or raises, and what it prints meanwhile
NoCallable == [kind |-> "absent", value |-> PyNone, cls |-> "", msg |-> PyNone, stdout |-> ""]
Returns(v) == [kind |-> "return", value |-> v, cls |-> "", msg |-> PyNone, stdout |-> ""]
ReturnsPrinting(v, out) == [Returns(v) EXCEPT !.stdout = out]
Raises(cls, msg) == [kind |-> "raise", value |-> PyNone, cls |-> cls, msg |-> msg, stdout |-> ""]

\* callable(x)
IsCallable(c) == c.kind # "absent"

\* an object offered as "instance": whether it is a BaseFeature and the
\* bound methods `run` and `run_default` it has
Instance(is_base, run, run_default) ==
    [is_base_feature |-> is_base, run |-> run, run_default |-> run_default]
NoInstance == Instance(FALSE, NoCallable, NoCallable)

\* one entry of EasyOptions.options
Option(id, label, callable) == [id |-> id, label |-> label, callable |-> callable]

\* the value under "easy_options": None, an EasyOptions (a BaseEasyOptions),
\* or a plain dict of callables; `options` keeps the insertion order
NoEasyOptions == [kind |-> "none", message |-> "", feature_name |-> PyNone, options |-> <<>>]
EasyOptions(message, options) ==
    [kind |-> "easy", message |-> message, feature_name |-> PyNone, options |-> options]

\* a registry of another class under "easy_options": it has the methods of
\* EasyOptions and is not a BaseEasyOptions
DuckOptions(message, options) ==
    [kind |-> "duck", message |-> message, feature_name |-> PyNone, options |-> options]

\* the object has render() and get_option_callable()
HasRegistryMethods(easy_options) == easy_options.kind \in {"easy", "duck"}

\* what register() returns: a dict (with the values under its four keys)
\* or some other object
Registration(instance, self_test, shutdown, easy_options) ==
    [is_dict |-> TRUE, instance |-> instance, self_test |-> self_test,
     shutdown |-> shutdown, easy_options |-> easy_options]
NotADict ==
    [is_dict |-> FALSE, instance |-> NoInstance, self_test |-> NoCallable,
     shutdown |-> NoCallable, easy_options |-> NoEasyOptions]

\* a module: what importing it raises ("" for nothing), whether it has a
\* register attribute, and what register() does
Module(path, import_error, has_register, register) ==
    [path |-> path, import_error |-> import_error, has_register |-> has_register,
     register |-> register]

\* f"features.{feature_name}.{feature_version}.{feature_name}"
ModulePath(feature_name, feature_version) ==
    "features." \o feature_name \o "." \o PyStrOf(feature_version) \o "." \o feature_name

HtmlOk == PyStr("<h2>ok</h2>")

\* the options registered by the module of feature "zeta"
ZetaOptions ==
    << Option("html", "HTML text", ReturnsPrinting(HtmlOk, "log")),
       Option("dict_ok_str", "Mapping with ok", Returns(PyDict([ok |-> PyStr("yes")]))),
       Option("raise_value", "Raises ValueError", Raises("ValueError", PyStr("bad input"))),
       Option("raise_key", "Raises KeyError", Raises("KeyError", PyStr("file_path"))) >>

\* ------------------------------------------------------------------------
\* The shipped features (features/<name>/v1_0/<name>.py)
\* ------------------------------------------------------------------------
ShippedFeatures == {"exiftool_scraper", "zsteg", "steghide", "binwalk", "iris"}

\* BaseFeature declares run() with @abstractmethod
abstractmethods == {"run"}

\* what the class Feature of each shipped module defines of the contract:
\* run_default, self_test and shutdown, and no run
FeatureMethods(name) == {"run_default", "self_test", "shutdown"}

\* Feature(): a class that leaves an abstract method undefined cannot be
\* instantiated
CanInstantiate(name) == abstractmethods \subseteq FeatureMethods(name)

\* what every shipped action returns when no file is selected
NoFileHtml == PyStr("<p>No file selected or invalid path.</p>")

\* the message and the options each register() gives its EasyOptions
ShippedMessage(name) ==
    CASE name = "exiftool_scraper" -> "EXIFTools Scraper Options:"
      [] name = "iris" -> "IRIS Image Search Options:"
      [] name = "binwalk" -> "Binwalk - Choose an action:"
      [] name = "steghide" -> "Steghide - Choose an action:"
      [] name = "zsteg" -> "Zsteg - Choose an action:"
ShippedOptions(name) ==
    CASE name = "exiftool_scraper" ->
            << Option("hello", "Say Hello", Returns(PyStr("Hello from exiftool_scraper"))),
               Option("run", "Run exiftool on a file", Returns(NoFileHtml)) >>
      [] name = "iris" ->
            << Option("google_search", "Google Reverse Image Search", Returns(NoFileHtml)),
               Option("yandex_search", "Yandex Reverse Image Search", Returns(NoFileHtml)),
               Option("tineye_search", "TinEye Reverse Image Search", Returns(NoFileHtml)),
               Option("bing_search", "Bing Reverse Image Search", Returns(NoFileHtml)) >>
      [] name = "binwalk" ->
            << Option("help", "Help / Tips", Returns(HtmlOk)),
               Option("scan_html", "Signature Scan (HTML)", Returns(NoFileHtml)) >>
      [] name = "steghide" ->
            << Option("help", "Help / Tips", Returns(HtmlOk)),
               Option("info_html", "Info (HTML)", Returns(NoFileHtml)) >>
      [] name = "zsteg" ->
            << Option("help", "Help / Tips", Returns(HtmlOk)),
               Option("scan_html", "Scan (HTML)", Returns(NoFileHtml)) >>

\* Feature.self_test: IRIS starts a headless Chrome and quits it, answering
\* False when that raises; the four others answer True whatever the host has
shipped_self_test(name, tool_present) ==
    IF name = "iris" /\ ~tool_present
    THEN ReturnsPrinting(PyBool(FALSE), "IRIS self-test failed")
    ELSE Returns(PyBool(TRUE))

\* register() of a shipped module: `instance = Feature()` comes first
shipped_register(name, tool_present) ==
    IF ~CanInstantiate(name)
    THEN Raises("TypeError",
                PyStr("Can't instantiate abstract class Feature with abstract method run"))
    ELSE Returns(Registration(Instance(TRUE, NoCallable, Returns(NoFileHtml)),
                              shipped_self_test(name, tool_present), Returns(PyNone),
                              EasyOptions(ShippedMessage(name), ShippedOptions(name))))

\* the shipped modules on a host without the external tools
ShippedModules ==
    { Module(ModulePath(name, PyStr("v1_0")), "", TRUE, shipped_register(name, FALSE)) :
        name \in ShippedFeatures }

\* app/core/feature_definitions.py
FEATURE_DEFINITIONS ==
    << [name |-> "exiftool_scraper",
        overrides |-> [enabled |-> PyBool(TRUE), display_name |-> PyStr("ExifTool Scraper"),
                       version |-> PyStr("v1_0"), description |-> PyStr("Extract EXIF"),
                       icon |-> PyStr("receipt")]],
       [name |-> "zsteg",
        overrides |-> [enabled |-> PyBool(TRUE), display_name |-> PyStr("Zsteg"),
                       version |-> PyStr("v1_0"), description |-> PyStr("Detect LSB stego"),
                       icon |-> PyStr("dna")]],
       [name |-> "steghide",
        overrides |-> [enabled |-> PyBool(TRUE), display_name |-> PyStr("Steghide"),
                       version |-> PyStr("v1_0"), description |-> PyStr("Inspect payloads"),
                       icon |-> PyStr("lock")]],
       [name |-> "binwalk",
        overrides |-> [enabled |-> PyBool(TRUE), display_name |-> PyStr("Binwalk"),
                       version |-> PyStr("v1_0"), description |-> PyStr("Scan firmware"),
                       icon |-> PyStr("package")]],
       [name |-> "iris",
        overrides |-> [enabled |-> PyBool(TRUE),
                       display_name |-> PyStr("IRIS (Reverse Image Search)"),
                       version |-> PyStr("v1_0"), description |-> PyStr("Reverse image search"),
                       icon |-> PyStr("magnifier")]] >>

\* the modules on the import path.  There is no module for feature "beta".
ModuleFiles ==
    { \* the Feature Contract's minimum: an instance with run() only
      Module(ModulePath("alpha", PyStr("v1_0")), "", TRUE,
             Returns(Registration(Instance(TRUE, Returns(HtmlOk), NoCallable),
                                  Returns(PyBool(TRUE)), NoCallable, NoEasyOptions))),
      \* run() and run_default(), no self_test
      Module(ModulePath("alpha", PyStr("v2_0")), "", TRUE,
             Returns(Registration(Instance(TRUE, Returns(PyStr("<h2>v2</h2>")),
                                           ReturnsPrinting(PyDict([x |-> PyInt(1)]), "log")),
                                  NoCallable, Returns(PyNone), NoEasyOptions))),
      \* register() raises
      Module(ModulePath("gamma", PyStr("v1_0")), "", TRUE,
             Raises("TypeError", PyStr("Can't instantiate abstract class Feature"))),
      \* run_default() raises
      Module(ModulePath("delta", PyStr("v1_0")), "", TRUE,
             Returns(Registration(Instance(TRUE, Returns(HtmlOk),
                                           Raises("ValueError", PyStr("bad input"))),
                                  Returns(PyBool(TRUE)), Returns(PyNone), NoEasyOptions))),
      \* an Option Registry
      Module(ModulePath("zeta", PyStr("v1_0")), "", TRUE,
             Returns(Registration(Instance(TRUE, Returns(HtmlOk), Returns(HtmlOk)),
                                  Returns(PyBool(TRUE)), Returns(PyNone),
                                  EasyOptions("Zeta options:", ZetaOptions)))),
      \* self_test() raises
      Module(ModulePath("eta", PyStr("v1_0")), "", TRUE,
             Returns(Registration(Instance(TRUE, Returns(HtmlOk), NoCallable),
                                  Raises("OSError", PyStr("tool probe failed")),
                                  NoCallable, NoEasyOptions))),
      \* self_test() is BaseFeature.self_test, which returns None
      Module(ModulePath("theta", PyStr("v1_0")), "", TRUE,
             Returns(Registration(Instance(TRUE, Returns(HtmlOk), NoCallable),
                                  Returns(PyNone), NoCallable, NoEasyOptions))),
      \* "easy_options" is a registry that does not derive from BaseEasyOptions
      Module(ModulePath("omicron", PyStr("v1_0")), "", TRUE,
             Returns(Registration(Instance(TRUE, Returns(HtmlOk), NoCallable),
                                  NoCallable, NoCallable,
                                  DuckOptions("", << Option("html", "HTML text", Returns(HtmlOk)) >>)))),
      \* an option that reports its failure in the mapping it returns
      Module(ModulePath("rho", PyStr("v1_0")), "", TRUE,
             Returns(Registration(Instance(TRUE, Returns(HtmlOk), NoCallable),
                                  NoCallable, NoCallable,
                                  EasyOptions("", << Option("fail", "Fails in-band",
                                      Returns(PyDict([ok |-> PyBool(FALSE),
                                                      error |-> PyStr("no file")]))) >>)))),
      \* self_test() raises TypeError
      Module(ModulePath("sigma", PyStr("v1_0")), "", TRUE,
             Returns(Registration(Instance(TRUE, Returns(HtmlOk), NoCallable),
                                  Raises("TypeError", PyStr("probe() takes no arguments")),
                                  NoCallable, NoEasyOptions))),
      \* self_test() returns False
      Module(ModulePath("nu", PyStr("v1_0")), "", TRUE,
             Returns(Registration(Instance(TRUE, Returns(HtmlOk), NoCallable),
                                  Returns(PyBool(FALSE)), NoCallable, NoEasyOptions))),
      \* the module's own code raises while it is imported
      Module(ModulePath("iota", PyStr("v1_0")), "ImportError", FALSE, Returns(NotADict)),
      \* the module imports a package that is not installed
      Module(ModulePath("iota", PyStr("v2_0")), "ModuleNotFoundError", FALSE, Returns(NotADict)),
      \* no register attribute
      Module(ModulePath("kappa", PyStr("v1_0")), "", FALSE, Returns(NotADict)),
      \* register() returns the Feature itself (as features/Feature_5 does)
      Module(ModulePath("lambda", PyStr("v1_0")), "", TRUE, Returns(NotADict)),
      \* shutdown() raises
      Module(ModulePath("xi", PyStr("v1_0")), "", TRUE,
             Returns(Registration(Instance(TRUE, Returns(HtmlOk), NoCallable),
                                  NoCallable, Raises("RuntimeError", PyStr("session lost")),
                                  NoEasyOptions))),
      \* register() returns a dict without a BaseFeature under "instance"
      Module(ModulePath("mu", PyStr("v1_0")), "", TRUE,
             Returns(Registration(NoInstance, Returns(PyBool(TRUE)), NoCallable, NoEasyOptions))) }
        \cup ShippedModules

\* importlib.import_module(module_path): the module, or the exception raised
import_module(module_path) ==
    IF \E m \in ModuleFiles : m.path = module_path
    THEN LET m == CHOOSE x \in ModuleFiles : x.path = module_path
         IN  [error |-> m.import_error, module |-> m]
    ELSE [error |-> "ModuleNotFoundError",
          module |-> Module(module_path, "ModuleNotFoundError", FALSE, Returns(NotADict))]

\* the entries a FEATURE_DEFINITIONS mapping is drawn from: a feature id and
\* the settings that override DEFAULTS for it
Definition(name, overrides) == [name |-> name, overrides |-> overrides]
DefinitionChoices ==
    { Definition("alpha", [display_name |-> PyStr("Alpha")]),
      Definition("alpha", [version |-> PyStr("v2_0"), display_name |-> PyStr("Alpha 2"),
                           extra |-> PyStr("x")]),
      Definition("alpha", [enabled |-> PyBool(FALSE)]),
      Definition("beta", [display_name |-> PyStr("Beta")]),
      Definition("gamma", EmptyDict),
      Definition("delta", [display_name |-> PyStr("Delta")]),
      Definition("zeta", [display_name |-> PyStr("Zeta"), description |-> PyStr("options")]),
      Definition("eta", EmptyDict),
      Definition("theta", EmptyDict),
      Definition("iota", EmptyDict),
      Definition("iota", [version |-> PyStr("v2_0")]),
      Definition("kappa", EmptyDict),
      Definition("lambda", EmptyDict),
      Definition("mu", EmptyDict),
      Definition("nu", EmptyDict) }

\* the FEATURE_DEFINITIONS mappings of at most `max` entries drawn from
\* `choices`: the keys of a dict are distinct, and the dict keeps their order
DefinitionMaps(choices, max) ==
    { defs \in UNION { [1..n -> choices] : n \in 0..max } :
        \A i, j \in DOMAIN defs : i # j => defs[i].name # defs[j].name }

\* definitions of features with and without a shutdown callable, one whose
\* shutdown raises and one that does not load
TeardownChoices ==
    { c \in DefinitionChoices :
        \/ c.name \in {"delta", "zeta", "gamma"}
        \/ c.name = "alpha" /\ "enabled" \notin DOMAIN c.overrides }
      \cup { Definition("xi", EmptyDict) }

\* the definitions of the features whose load ends without an exception
\* leaving load_features
QuietChoices ==
    { c \in DefinitionChoices : c.name \in {"alpha", "beta", "gamma", "delta", "zeta"} }

\* the quiet features and one whose registry is not a BaseEasyOptions
ServeChoices == QuietChoices \cup { Definition("omicron", EmptyDict) }

\* the features behind the command line of the bridge: with options that
\* return and raise, one that fails in-band, a default action that raises,
\* and two whose self_test raises
CliChoices ==
    { c \in DefinitionChoices : c.name \in {"zeta", "delta", "eta"} }
        \cup { Definition("rho", EmptyDict), Definition("sigma", EmptyDict) }

\* ------------------------------------------------------------------------
\* State
\* ------------------------------------------------------------------------
VARIABLES
    defaults,             \* the `defaults` argument of FeatureManager
    feature_definitions,  \* the `feature_definitions` argument, in dict order
    debug,                \* FeatureManager.debug
    pc,                   \* "loading": inside load_features; "ready": the
                          \* manager is constructed; "crashed": the
                          \* constructor raised
    scanned,              \* load_features' local counters
    disabled,
    failures,
    loaded_features,      \* load_features' local table, in insertion order
    features,             \* FeatureManager.features, once constructed
    load_error,           \* the exception the constructor raised, if any
    load_log,             \* what the load phase called, in order
    outcome,              \* how each processed definition ended, in order
    op,                   \* the last public operation called, with arguments
    result,               \* what it returned or raised
    ran,                  \* the feature actions it ran, with their params
    m_pc,                 \* the configuration merge on its own: its stage,
    m_defaults,           \*   the defaults map D,
    m_overrides,          \*   the override map O,
    m_config,             \*   and the config being built
    shutdown_log,         \* one entry for each call of FeatureManager.shutdown():
                          \*   the teardown callables it invoked, in order
    main_pc,              \* src/main.py as a process: where it is
    app_api,              \* main.app_api: "none" or "api"
    windows,              \* len(webview.windows)
    _exit_handled,        \* main._exit_handled
    exit_events,          \* the calls of handle_exit so far
    exit_shutdowns,       \* the calls of shutdown() those calls led to
    registry,             \* an EasyOptions on its own,
    added,                \*   the add_option calls made on it, in order,
    named,                \*   and whether set_feature_name was called on it
    file_path,            \* API.file_path of an API built on the manager
    last_used_feature,    \* API.last_used_feature
    iris,                 \* an IRIS Feature object: self.driver, the browser
                          \*   sessions it opened that are still open, and
                          \*   where its current action is
    tool                  \* an action of a command-line feature: the
                          \*   external process it waits for, and its result

manager_vars ==
    << defaults, feature_definitions, debug, pc, scanned, disabled, failures,
       loaded_features, features, load_error, load_log, outcome, op, result, ran >>
merge_vars == << m_pc, m_defaults, m_overrides, m_config >>
life_vars ==
    << shutdown_log, main_pc, app_api, windows, _exit_handled, exit_events, exit_shutdowns >>
registry_vars == << registry, added, named >>
api_vars == << file_path, last_used_feature >>
action_vars == << iris, tool >>
vars == << manager_vars, merge_vars, life_vars, registry_vars, api_vars, action_vars >>
\* what an operation of the manager, or a step of the merge, leaves alone
beside_manager == << merge_vars, life_vars, registry_vars, api_vars, action_vars >>
beside_merge == << manager_vars, life_vars, registry_vars, api_vars, action_vars >>
beside_life == << manager_vars, merge_vars, registry_vars, api_vars, action_vars >>

\* ------------------------------------------------------------------------
\* The loaded-feature table: a dict kept as the sequence of its records
\* ------------------------------------------------------------------------
TableKeys(table) == { table[i].name : i \in DOMAIN table }
TableGet(table, name) == table[CHOOSE i \in DOMAIN table : table[i].name = name]
\* table[rec.name] = rec
TableSet(table, rec) ==
    IF rec.name \in TableKeys(table)
    THEN [i \in DOMAIN table |-> IF table[i].name = rec.name THEN rec ELSE table[i]]
    ELSE Append(table, rec)

\* EasyOptions.set_feature_name
set_feature_name(easy_options, feature_name) ==
    [easy_options EXCEPT !.feature_name = PyStr(feature_name)]

NoExc == PyExc("", PyNone)
Event(ev, feature) == [ev |-> ev, feature |-> feature]

\* ------------------------------------------------------------------------
\* FeatureManager.load_features: the body of the loop for one definition
\* ------------------------------------------------------------------------
\* the record stored under loaded_features[feature_name]
LoadedRecord(feature_name, data, easy_option, feature_config) ==
    [name |-> feature_name,
     instance |-> data.instance,
     easy_options |-> easy_option,
     shutdown |-> data.shutdown,
     version |-> feature_config["version"],
     display_name |-> feature_config["display_name"],
     description |-> feature_config["description"],
     icon |-> feature_config["icon"]]

NoRecord ==
    [name |-> "", instance |-> NoInstance, easy_options |-> NoEasyOptions,
     shutdown |-> NoCallable, version |-> PyNone, display_name |-> PyNone,
     description |-> PyNone, icon |-> PyNone]

\* how one pass of the loop ends: "disabled", "failed" (with the state of
\* the feature), "loaded" (with the record stored) or "raised" (an
\* exception leaves load_features); `events` are the calls it made
LoadEnd(end, state, events, record, exc) ==
    [end |-> end, state |-> state, events |-> events, record |-> record, exc |-> exc]

\* a slip of step 1: the enabled flag is not looked at
feature_enabled_ignored(feature_config) == TRUE

\* feature_enabled = feature_config['enabled'], tested by `if not feature_enabled`
feature_enabled(feature_config) == Truthy(feature_config["enabled"])

\* a slip of the try around register(): no exception class is caught
register_error_uncaught(cls) == FALSE

\* `except Exception` around module.register(): the exception classes caught
register_error_caught(cls) == cls \notin {"SystemExit", "KeyboardInterrupt", "GeneratorExit"}

\* a slip of the test: the result of self_test() is not looked at
self_test_passed_always(returned) == TRUE

\* `if result:` on what self_test() returned
self_test_passed(returned) == Truthy(returned)

\* steps 3.2 to 5 of the loop body, on the value register() returned
load_registered(feature_name, feature_config, data) ==
    LET ev_register == << Event("import", feature_name), Event("register", feature_name) >>
        ev_self_test == Append(ev_register, Event("self_test", feature_name))
        ev_tested == IF IsCallable(data.self_test) THEN ev_self_test ELSE ev_register
    IN  \* 3.2 Verify registration data
        IF ~data.is_dict
        THEN LoadEnd("failed", "BadRegistration", ev_register, NoRecord, NoExc)
        \* 4. Verify that module is an instance of contract
        ELSE IF ~data.instance.is_base_feature
        THEN LoadEnd("failed", "ContractViolation", ev_register, NoRecord, NoExc)
        \* 5.1 Perform self-test if exists (it is called outside any try)
        ELSE IF IsCallable(data.self_test) /\ data.self_test.kind = "raise"
        THEN LoadEnd("raised", "SelfTestFailed", ev_self_test, NoRecord,
                     PyExc(data.self_test.cls, data.self_test.msg))
        ELSE IF IsCallable(data.self_test) /\ ~self_test_passed(data.self_test.value)
        THEN LoadEnd("failed", "SelfTestFailed", ev_self_test, NoRecord, NoExc)
        \* 5. Store with other features
        ELSE IF data.easy_options.kind = "easy"
        THEN LoadEnd("loaded", "Loaded",
                     Append(ev_tested, Event("set_feature_name", feature_name)),
                     LoadedRecord(feature_name, data,
                                  set_feature_name(data.easy_options, feature_name),
                                  feature_config),
                     NoExc)
        ELSE LoadEnd("loaded", "Loaded", ev_tested,
                     LoadedRecord(feature_name, data, data.easy_options, feature_config),
                     NoExc)

\* steps 1.1 to 3.1 of the loop body, on what import_module gave
load_imported(feature_name, feature_config, module_path, imported) ==
    LET ev_import == << Event("import", feature_name) >>
        ev_register == << Event("import", feature_name), Event("register", feature_name) >>
    IN  \* 1.1 only ModuleNotFoundError is caught
        IF imported.error = "ModuleNotFoundError"
        THEN LoadEnd("failed", "ModuleMissing", ev_import, NoRecord, NoExc)
        ELSE IF imported.error # ""
        THEN LoadEnd("raised", "ModuleMissing", ev_import, NoRecord,
                     PyExc(imported.error, PyStr(module_path)))
        \* 2. Verify module exposes registration method
        ELSE IF ~imported.module.has_register
        THEN LoadEnd("failed", "BadRegistration", ev_import, NoRecord, NoExc)
        \* 3.1 If module registration fails
        ELSE IF imported.module.register.kind = "raise"
        THEN IF register_error_caught(imported.module.register.cls)
             THEN LoadEnd("failed", "RegisterFailed", ev_register, NoRecord, NoExc)
             ELSE LoadEnd("raised", "RegisterFailed", ev_register, NoRecord,
                          PyExc(imported.module.register.cls, imported.module.register.msg))
        ELSE load_registered(feature_name, feature_config, imported.module.register.value)

\* the loop body once feature_config is made: the enabled check, then the import
load_configured(feature_name, feature_config, module_path) ==
    \* 1. Check if feature is enabled
    IF ~feature_enabled(feature_config)
    THEN LoadEnd("disabled", "Disabled", <<>>, NoRecord, NoExc)
    ELSE load_imported(feature_name, feature_config, module_path, import_module(module_path))

\* the loop body for one definition
load_one(dflts, feature_name, overrides) ==
    load_configured(feature_name, EffectiveConfig(dflts, overrides),
                    ModulePath(feature_name, EffectiveConfig(dflts, overrides)["version"]))

\* the counters after one pass: scanned += 1 at the top of the loop, then
\* disabled += 1 or failures += 1 on the way out
Counters(s, d, f) == [scanned |-> s, disabled |-> d, failures |-> f]

\* a slip of the counting: a failure branch lacks its `failures += 1`
count_pass_failure_uncounted(c, end) ==
    Counters(c.scanned + 1, IF end = "disabled" THEN c.disabled + 1 ELSE c.disabled, c.failures)

count_pass(c, end) ==
    Counters(c.scanned + 1,
             IF end = "disabled" THEN c.disabled + 1 ELSE c.disabled,
             IF end = "failed" THEN c.failures + 1 ELSE c.failures)

\* ------------------------------------------------------------------------
\* Results of the public operations
\* ------------------------------------------------------------------------
NoOp == [name |-> "none"]
NoResult == [raised |-> FALSE, exc |-> NoExc]
Returned(v) == [raised |-> FALSE, exc |-> NoExc, value |-> v]
Raised(e) == [raised |-> TRUE, exc |-> e]

\* ------------------------------------------------------------------------
\* Initial state: a manager under construction
\* ------------------------------------------------------------------------
MergeIdle ==
    /\ m_pc = "idle"
    /\ m_defaults = EmptyDict
    /\ m_overrides = EmptyDict
    /\ m_config = EmptyDict

\* EasyOptions(): no name, no options; API.__init__: no file, no feature
\* Feature.__init__ of IRIS leaves self.driver None; no action is running
IrisIdle ==
    [pc |-> "idle", driver |-> 0, sessions |-> {}, opened |-> 0, engine |-> "",
     raised |-> FALSE, last |-> "", html |-> ""]
ToolIdle ==
    [pc |-> "idle", feature |-> "", action |-> "", timeout |-> <<>>, proc |-> "",
     ended |-> "", errors |-> ""]
ActionsIdle ==
    /\ iris = IrisIdle
    /\ tool = ToolIdle

RegistryIdle ==
    /\ registry = EasyOptions("", <<>>)
    /\ added = <<>>
    /\ named = FALSE
    /\ file_path = PyNone
    /\ last_used_feature = PyNone
    /\ ActionsIdle

\* no call of shutdown() yet, and src/main.py is not running
LifeIdle ==
    /\ shutdown_log = <<>>
    /\ main_pc = "idle"
    /\ app_api = "none"
    /\ windows = 0
    /\ _exit_handled = FALSE
    /\ exit_events = 0
    /\ exit_shutdowns = 0

\* no manager: the manager's variables stay as they are here
ManagerIdle ==
    /\ defaults = DEFAULTS
    /\ feature_definitions = <<>>
    /\ debug = FALSE
    /\ pc = "idle"
    /\ scanned = 0
    /\ disabled = 0
    /\ failures = 0
    /\ loaded_features = <<>>
    /\ features = <<>>
    /\ load_error = NoExc
    /\ load_log = <<>>
    /\ outcome = <<>>
    /\ op = NoOp
    /\ result = NoResult
    /\ ran = <<>>

\* a manager about to be constructed on the definitions `maps` offers
ManagerStart(maps) ==
    /\ defaults = DEFAULTS
    /\ feature_definitions \in maps
    /\ debug \in BOOLEAN
    /\ pc = "loading"
    /\ scanned = 0
    /\ disabled = 0
    /\ failures = 0
    /\ loaded_features = <<>>
    /\ features = <<>>
    /\ load_error = NoExc
    /\ load_log = <<>>
    /\ outcome = <<>>
    /\ op = NoOp
    /\ result = NoResult
    /\ ran = <<>>

InitOn(maps) == ManagerStart(maps) /\ MergeIdle /\ LifeIdle /\ RegistryIdle

Init == InitOn(DefinitionMaps(QuietChoices, MaxServed))

InitLoad == InitOn(DefinitionMaps(DefinitionChoices, MaxFeatures))

\* ------------------------------------------------------------------------
\* FeatureManager.__init__ / load_features
\* ------------------------------------------------------------------------
\* one pass of `for feature in feature_definitions`
LoadNext ==
    /\ pc = "loading"
    /\ scanned < Len(feature_definitions)
    /\ \E defn \in { feature_definitions[scanned + 1] } :
       \E r \in { load_one(defaults, defn.name, defn.overrides) } :
       \E c \in { count_pass(Counters(scanned, disabled, failures), r.end) } :
           /\ scanned' = c.scanned
           /\ disabled' = c.disabled
           /\ failures' = c.failures
           /\ load_log' = load_log \o r.events
           /\ outcome' = Append(outcome, [name |-> defn.name, end |-> r.end, state |-> r.state])
           /\ loaded_features' =
                 IF r.end = "loaded" THEN TableSet(loaded_features, r.record)
                 ELSE loaded_features
           /\ pc' = IF r.end = "raised" THEN "crashed" ELSE "loading"
           /\ load_error' = r.exc
    /\ UNCHANGED << defaults, feature_definitions, debug, features, op, result, ran >>
    /\ UNCHANGED beside_manager

\* the loop is over: load_features returns and __init__ stores the table
LoadReturn ==
    /\ pc = "loading"
    /\ scanned = Len(feature_definitions)
    /\ features' = loaded_features
    /\ pc' = "ready"
    /\ UNCHANGED << defaults, feature_definitions, debug, scanned, disabled, failures,
                    loaded_features, load_error, load_log, outcome, op, result, ran >>
    /\ UNCHANGED beside_manager

\* ------------------------------------------------------------------------
\* EasyOptions (app/core/easy_options.py)
\* ------------------------------------------------------------------------
OptionIds(easy_options) == { easy_options.options[i].id : i \in DOMAIN easy_options.options }

\* self.options[option_id]["callable"], a KeyError when the id is absent
get_option_callable(easy_options, option_id) ==
    IF option_id.t = "str" /\ option_id.s \in OptionIds(easy_options)
    THEN Returned((CHOOSE o \in { easy_options.options[i] : i \in DOMAIN easy_options.options } :
                      o.id = option_id.s).callable)
    ELSE Raised(PyExc("KeyError", option_id))

\* the buttons of the menu, one for each option in insertion order
RECURSIVE RenderButtons(_, _, _)
RenderButtons(feature_name, options, i) ==
    IF i > Len(options) THEN ""
    ELSE "<button onclick=\"runFeature('" \o feature_name \o "', '" \o options[i].id \o "')\">"
           \o options[i].label \o "</button>" \o RenderButtons(feature_name, options, i + 1)

\* a slip of the template: only the first option gets a button
render_first_option_only(easy_options) ==
    IF ~Truthy(easy_options.feature_name)
    THEN Raised(PyExc("ValueError", PyStr("Feature name not set for EasyOptions rendering.")))
    ELSE IF Len(easy_options.options) = 0
    THEN Returned(PyStr("<p>No options available.</p>"))
    ELSE Returned(PyStr(
            (IF easy_options.message # "" THEN "<h2>" \o easy_options.message \o "</h2>" ELSE "")
            \o RenderButtons(easy_options.feature_name.s, SubSeq(easy_options.options, 1, 1), 1)))

\* EasyOptions.render
render(easy_options) ==
    IF ~Truthy(easy_options.feature_name)
    THEN Raised(PyExc("ValueError", PyStr("Feature name not set for EasyOptions rendering.")))
    ELSE IF Len(easy_options.options) = 0
    THEN Returned(PyStr("<p>No options available.</p>"))
    ELSE Returned(PyStr(
            (IF easy_options.message # "" THEN "<h2>" \o easy_options.message \o "</h2>" ELSE "")
            \o RenderButtons(easy_options.feature_name.s, easy_options.options, 1)))

\* ------------------------------------------------------------------------
\* Calls of feature actions
\* ------------------------------------------------------------------------
\* one call of a feature action: which feature, which action ("method" of
\* the instance or registered "option"), and the params it was given
Ran(feature, kind, action, params) ==
    [feature |-> feature, kind |-> kind, action |-> action, params |-> params]

\* the outcome of calling `callable`: [raised, exc, value, stdout]
Call(callable) ==
    IF callable.kind = "raise"
    THEN [raised |-> TRUE, exc |-> PyExc(callable.cls, callable.msg), value |-> PyNone,
          stdout |-> callable.stdout]
    ELSE [raised |-> FALSE, exc |-> NoExc, value |-> callable.value, stdout |-> callable.stdout]

\* ------------------------------------------------------------------------
\* FeatureManager, public operations (app/core/feature_manager.py)
\* ------------------------------------------------------------------------
\* {name: {"version": ..., "display_name": ...} for name, data in self.features.items()}
get_available_features(table) ==
    PyDict([name \in TableKeys(table) |->
              PyDict([version |-> TableGet(table, name).version,
                      display_name |-> TableGet(table, name).display_name])])

\* a slip of the test: `is None` for `is not None`
option_selected_inverted(option_id) == option_id.t = "none"

\* `if option_id is not None`
option_selected(option_id) == option_id.t # "none"

\* FeatureManager.invoke_feature: [raised, exc, value, ran]
invoke_feature(table, dbg, feature_name, option_id, params) ==
    LET params2 == PyDict(DictSet(params.d, "debug", PyBool(dbg)))
        Out(r, calls) == [raised |-> r.raised, exc |-> r.exc,
                          value |-> IF r.raised THEN PyNone ELSE r.value, ran |-> calls]
    IN  IF feature_name \notin TableKeys(table)
        THEN Out(Raised(PyExc("Exception", PyStr("Feature '" \o feature_name \o "' not found"))), <<>>)
        ELSE LET rec == TableGet(table, feature_name)
                 options == rec.easy_options
             IN  IF options.kind # "none"
                 THEN IF option_selected(option_id)
                      THEN LET cb == get_option_callable(options, option_id)
                           IN  IF ~HasRegistryMethods(options)
                               THEN Out(Raised(PyExc("AttributeError", PyStr("get_option_callable"))), <<>>)
                               ELSE IF cb.raised THEN Out(cb, <<>>)
                               ELSE Out(Call(cb.value),
                                        << Ran(feature_name, "option", option_id.s, params2) >>)
                      ELSE IF ~HasRegistryMethods(options)
                           THEN Out(Raised(PyExc("AttributeError", PyStr("render"))), <<>>)
                           ELSE Out(render(options), <<>>)
                 ELSE Out(Call(rec.instance.run),
                          << Ran(feature_name, "method", "run", params2) >>)

\* ------------------------------------------------------------------------
\* Invocation bridge (app/bridge.py)
\* ------------------------------------------------------------------------
\* _safe_json: the object itself when json.dumps accepts it, else str(obj)
_safe_json(obj) == IF IsJsonable(obj) THEN obj ELSE PyStr(PyStrOf(obj))

Envelope(code, payload) == [raised |-> FALSE, exc |-> NoExc, code |-> code, payload |-> payload]
BridgeRaised(e) == [raised |-> TRUE, exc |-> e, code |-> 0 - 1, payload |-> PyNone]

\* "ok" in out or "html" in out or "json" in out, for a dict
HasEnvelopeKey(v) == v.t = "dict" /\ (DOMAIN v.d) \cap {"ok", "html", "json"} # {}

OkTrue == PyBool(TRUE)

\* a slip of the test: only `{` is taken for JSON text
looks_like_json_object_only(s) == StartsWith(s, "{")

\* s.startswith("{") or s.startswith("[")
looks_like_json(s) == StartsWith(s, "{") \/ StartsWith(s, "[")

\* the payload chosen from the type of `out`, before the prints are attached
NormalizedPayload(out) ==
    IF out.t \in {"dict", "list"}
    THEN IF HasEnvelopeKey(out) THEN _safe_json(out)
         ELSE PyDict([ok |-> OkTrue, json |-> _safe_json(out)])
    ELSE IF out.t = "str"
    THEN LET s == Strip(out.s)
             j == json_loads(s)
         IN  IF looks_like_json(s)
             THEN IF j.ok
                  THEN IF HasEnvelopeKey(j.v) THEN j.v
                       ELSE PyDict([ok |-> OkTrue, json |-> j.v])
                  ELSE PyDict([ok |-> OkTrue, result |-> out])
             ELSE IF StartsWith(s, "<") THEN PyDict([ok |-> OkTrue, html |-> out])
             ELSE PyDict([ok |-> OkTrue, result |-> out])
    ELSE PyDict([ok |-> OkTrue, result |-> _safe_json(out)])

\* payload.setdefault("_prints", {})[stream] = text
AttachPrint(payload, stream, text) ==
    LET prints == IF "_prints" \in DOMAIN payload.d THEN payload.d["_prints"] ELSE PyDict(EmptyDict)
    IN  PyDict(DictSet(payload.d, "_prints", PyDict(DictSet(prints.d, stream, PyStr(text)))))

\* `if captured: payload.setdefault("_prints", {})[stream] = captured`, on
\* the envelope so far: a str payload has no setdefault, and a "_prints"
\* that is not a dict takes no item
attach_prints(e, stream, text) ==
    IF e.raised \/ text = "" THEN e
    ELSE IF e.payload.t # "dict"
    THEN BridgeRaised(PyExc("AttributeError",
                            PyStr("'str' object has no attribute 'setdefault'")))
    ELSE IF "_prints" \in DOMAIN e.payload.d /\ e.payload.d["_prints"].t # "dict"
    THEN BridgeRaised(PyExc("TypeError", PyStr("object does not support item assignment")))
    ELSE Envelope(0, AttachPrint(e.payload, stream, text))

\* `if "ok" not in payload: payload["ok"] = True`: on a str payload `in` is
\* the substring test, and the assignment raises
ensure_ok(e) ==
    IF e.raised THEN e
    ELSE IF e.payload.t = "dict"
    THEN IF "ok" \in DOMAIN e.payload.d THEN e
         ELSE Envelope(0, PyDict(DictSet(e.payload.d, "ok", OkTrue)))
    ELSE IF StrContains(e.payload.s, "ok") THEN e
    ELSE BridgeRaised(PyExc("TypeError",
                            PyStr("'str' object does not support item assignment")))

\* _normalize_output: (0, payload), or the exception it raises when the
\* payload is the str that _safe_json made of a dict json.dumps rejects
_normalize_output(out, captured_out, captured_err) ==
    ensure_ok(attach_prints(attach_prints(Envelope(0, NormalizedPayload(out)),
                                          "stdout", captured_out),
                            "stderr", captured_err))

\* params or {}
OrEmpty(params) == IF Truthy(params) THEN params ELSE PyDict(EmptyDict)

ErrorEnvelope(message) == Envelope(1, PyDict([ok |-> PyBool(FALSE), error |-> PyStr(message)]))

\* a slip of the message: the quotes around the id are missing
unknown_feature_message_bare(feature) == "Unknown feature " \o feature

\* f"Unknown feature '{feature}'"
unknown_feature_message(feature) == "Unknown feature '" \o feature \o "'"

\* the option ids the bridge takes as a request for the default action
DefaultOptionIds == {PyNone, PyStr(""), PyStr("default"), PyStr("run_default"), PyStr("run")}

\* _call_easy_option, for an object with get_option_callable:
\* [raised, exc, value, stdout, ran]
_call_easy_option(feature, ez, option, params) ==
    LET cb == get_option_callable(ez, option)
        r == Call(cb.value)
    IN  IF cb.raised
        THEN [raised |-> TRUE, exc |-> cb.exc, value |-> PyNone, stdout |-> "", ran |-> <<>>]
        ELSE [raised |-> r.raised, exc |-> r.exc, value |-> r.value, stdout |-> r.stdout,
              ran |-> << Ran(feature, "option", option.s, OrEmpty(params)) >>]

WithRan(envelope, calls) ==
    [raised |-> envelope.raised, exc |-> envelope.exc, code |-> envelope.code,
     payload |-> envelope.payload, ran |-> calls]

\* the two except clauses of run_option: `except KeyError as ke` gives
\* str(ke), `except Exception as e` gives the class name and str(e)
option_error(e, calls) ==
    IF e.cls = "KeyError" THEN WithRan(ErrorEnvelope(ExcStr(e)), calls)
    ELSE WithRan(ErrorEnvelope("Option raised: " \o e.cls \o ": " \o ExcStr(e)), calls)

\* `return _normalize_output(out, pout, perr)` inside the try
option_normalized(n, calls) ==
    IF n.raised THEN option_error(n.exc, calls) ELSE WithRan(n, calls)

\* the try block of run_option, on what _call_easy_option did
option_called(c) ==
    IF c.raised THEN option_error(c.exc, c.ran)
    ELSE option_normalized(_normalize_output(c.value, c.stdout, ""), c.ran)

\* run_option: [raised, exc, code, payload, ran]
run_option(table, feature, option, params) ==
    IF feature \notin TableKeys(table)
    THEN WithRan(ErrorEnvelope(unknown_feature_message(feature)), <<>>)
    ELSE LET rec == TableGet(table, feature)
             ez == rec.easy_options
             inst == rec.instance
         IN  IF ez.kind = "none"
             THEN \* If no EasyOptions, optionally fall back to run_default
                  IF IsCallable(inst.run_default) /\ option \in DefaultOptionIds
                  THEN LET r == Call(inst.run_default)
                           calls == << Ran(feature, "method", "run_default", OrEmpty(params)) >>
                       IN  IF r.raised THEN WithRan(BridgeRaised(r.exc), calls)
                           ELSE WithRan(_normalize_output(r.value, r.stdout, ""), calls)
                  ELSE WithRan(ErrorEnvelope("Feature '" \o feature \o "' has no easy options"), <<>>)
             ELSE option_called(_call_easy_option(feature, ez, option, params))

\* ------------------------------------------------------------------------
\* Requests made of a constructed manager
\* ------------------------------------------------------------------------
\* the feature ids asked for: every defined one and one that is not
FeatureArgs == { feature_definitions[i].name : i \in DOMAIN feature_definitions } \cup {"ghost"}

\* the option ids asked for: the default ids, the ids some registry holds,
\* and one that no registry holds
OptionArgs ==
    DefaultOptionIds
        \cup { PyStr(ZetaOptions[i].id) : i \in DOMAIN ZetaOptions }
        \cup { PyStr("nope") }

\* the option ids asked of invoke_feature
InvokeOptionArgs == { PyNone, PyStr("html"), PyStr("raise_value"), PyStr("nope") }

ParamsArgs == { PyDict(EmptyDict), PyDict([file_path |-> PyStr("a.png")]) }

GetAvailableFeatures ==
    /\ pc = "ready"
    /\ op' = [name |-> "get_available_features"]
    /\ result' = Returned(get_available_features(features))
    /\ ran' = <<>>
    /\ UNCHANGED << defaults, feature_definitions, debug, pc, scanned, disabled, failures,
                    loaded_features, features, load_error, load_log, outcome >>
    /\ UNCHANGED beside_manager

InvokeFeature ==
    /\ pc = "ready"
    /\ \E feature \in FeatureArgs, option \in InvokeOptionArgs, params \in ParamsArgs :
          \E r \in { invoke_feature(features, debug, feature, option, params) } :
              /\ op' = [name |-> "invoke_feature", feature |-> feature, option |-> option,
                        params |-> params]
              /\ result' = [raised |-> r.raised, exc |-> r.exc, value |-> r.value]
              /\ ran' = r.ran
    /\ UNCHANGED << defaults, feature_definitions, debug, pc, scanned, disabled, failures,
                    loaded_features, features, load_error, load_log, outcome >>
    /\ UNCHANGED beside_manager

RunOption ==
    /\ pc = "ready"
    /\ \E feature \in FeatureArgs, option \in OptionArgs, params \in ParamsArgs :
          \E r \in { run_option(features, feature, option, params) } :
              /\ op' = [name |-> "run_option", feature |-> feature, option |-> option,
                        params |-> params]
              /\ result' = [raised |-> r.raised, exc |-> r.exc, code |-> r.code,
                            payload |-> r.payload]
              /\ ran' = r.ran
    /\ UNCHANGED << defaults, feature_definitions, debug, pc, scanned, disabled, failures,
                    loaded_features, features, load_error, load_log, outcome >>
    /\ UNCHANGED beside_manager

\* ------------------------------------------------------------------------
\* bridge.list_features_payload
\* ------------------------------------------------------------------------
\* getattr(o, "id", getattr(o, "key", None)) where o is a key of the dict
\* EasyOptions.options, a str: it has neither attribute
option_oid(o) == PyNone

\* the loop `for o in getattr(ez, "options")`: iterating the dict gives its
\* keys, and a key without an id is skipped
RECURSIVE listed_options(_, _)
listed_options(options, i) ==
    IF i > Len(options) THEN << >>
    ELSE IF ~Truthy(option_oid(options[i].id)) THEN listed_options(options, i + 1)
    ELSE << PyDict([id |-> option_oid(options[i].id), label |-> option_oid(options[i].id)]) >>
            \o listed_options(options, i + 1)

\* the item for one record of the bag; an EasyOptions has no `list` and has
\* `options`, so the second shape is the one taken
feature_item(rec) ==
    PyDict([id |-> PyStr(rec.name),
            label |-> rec.display_name,
            description |-> rec.description,
            options |-> PyList(IF rec.easy_options.kind = "none" THEN << >>
                               ELSE listed_options(rec.easy_options.options, 1))])

list_features_payload(table) ==
    PyDict([ok |-> PyBool(TRUE),
            features |-> PyList([i \in DOMAIN table |-> feature_item(table[i])])])

ListFeatures ==
    /\ pc = "ready"
    /\ op' = [name |-> "list_features_payload"]
    /\ result' = Returned(list_features_payload(features))
    /\ ran' = <<>>
    /\ UNCHANGED << defaults, feature_definitions, debug, pc, scanned, disabled, failures,
                    loaded_features, features, load_error, load_log, outcome >>
    /\ UNCHANGED beside_manager

Next ==
    \/ LoadNext
    \/ LoadReturn
    \/ GetAvailableFeatures
    \/ InvokeFeature
    \/ RunOption
    \/ ListFeatures

Spec == Init /\ [][Next]_vars

\* the load phase on every kind of feature module, and the listing
NextLoad ==
    \/ LoadNext
    \/ LoadReturn
    \/ GetAvailableFeatures

SpecLoad == InitLoad /\ [][NextLoad]_vars

\* ------------------------------------------------------------------------
\* The command line of the bridge (app/bridge.py): main
\* ------------------------------------------------------------------------
\* FeatureManager.load_features as one call: the table, the calls made, and
\* the exception that left it, if any
RECURSIVE load_loop(_, _, _, _)
RECURSIVE load_pass(_, _, _, _, _)
load_loop(dflts, defs, i, acc) ==
    IF i > Len(defs) THEN acc
    ELSE load_pass(dflts, defs, i, acc, load_one(dflts, defs[i].name, defs[i].overrides))
load_pass(dflts, defs, i, acc, r) ==
    IF r.end = "raised"
    THEN [raised |-> TRUE, exc |-> r.exc, table |-> acc.table, log |-> acc.log \o r.events]
    ELSE load_loop(dflts, defs, i + 1,
                   [raised |-> FALSE, exc |-> NoExc,
                    table |-> IF r.end = "loaded" THEN TableSet(acc.table, r.record)
                              ELSE acc.table,
                    log |-> acc.log \o r.events])
load_features(dflts, defs) ==
    load_loop(dflts, defs, 1, [raised |-> FALSE, exc |-> NoExc, table |-> <<>>, log |-> <<>>])

\* def load_features(self, defaults, feature_definitions): two arguments
load_features_accepts(given) == given = 2

\* API.__init__(self, feature_manager, supported_files,
\* feature_reload_on_file_change=True): two or three, and no `debug`
api_accepts(given) == given >= 2 /\ given <= 3

BuildFailed(log) ==
    [raised |-> TRUE, exc |-> PyExc("RuntimeError", PyStr("Unable to construct a manager.")),
     kind |-> "", table |-> <<>>, log |-> log]
Built(kind, table, log) ==
    [raised |-> FALSE, exc |-> NoExc, kind |-> kind, table |-> table, log |-> log]

\* the fallback: API(debug=False), on TypeError API(); any exception becomes
\* the RuntimeError
build_fallback(log) ==
    IF api_accepts(0) THEN Built("api", <<>>, log) ELSE BuildFailed(log)

\* the preferred path once the FeatureManager is constructed: it has no
\* scan_features, it has load_features, and fm.load_features() is called
\* with no argument; `except Exception: pass` leads to the fallback
build_nudged(fm) ==
    IF load_features_accepts(0) THEN Built("feature_manager", fm.table, fm.log)
    ELSE build_fallback(fm.log)

\* `except TypeError: fm = FeatureManager(DEFAULTS, FEATURE_DEFINITIONS)`:
\* a TypeError out of the first construction starts a second one
build_retried(first, second) ==
    IF second.raised THEN build_fallback(first.log \o second.log)
    ELSE build_nudged([second EXCEPT !.log = first.log \o second.log])

build_constructed(dflts, defs, first) ==
    IF ~first.raised THEN build_nudged(first)
    ELSE IF first.exc.cls = "TypeError"
    THEN build_retried(first, load_features(dflts, defs))
    ELSE build_fallback(first.log)

\* _build_feature_manager: [raised, exc, kind, table, log]
_build_feature_manager(dflts, defs) == build_constructed(dflts, defs, load_features(dflts, defs))

\* _load_params_from_cli(params_str, None)
_load_params_from_cli(params_str) ==
    IF ~json_loads(IF params_str = "" THEN "{}" ELSE params_str).ok
    THEN Raised(PyExc("ValueError", PyStr("Invalid --params: Expecting value")))
    ELSE IF json_loads(IF params_str = "" THEN "{}" ELSE params_str).v.t # "dict"
    THEN Raised(PyExc("ValueError", PyStr("--params must be a JSON object")))
    ELSE Returned(json_loads(IF params_str = "" THEN "{}" ELSE params_str).v)

\* payload.setdefault("_meta", {})["manager_kind"] = kind
with_meta(payload, kind) ==
    PyDict(DictSet(payload.d, "_meta",
                   PyDict(DictSet(IF "_meta" \in DOMAIN payload.d THEN payload.d["_meta"].d
                                  ELSE EmptyDict,
                                  "manager_kind", PyStr(kind)))))

\* the end of main once run_option is back: the envelope is printed and its
\* code returned; an exception out of run_option leaves main, and the
\* interpreter exits with status 1 and nothing printed
main_served(r, kind) ==
    IF r.raised
    THEN [raised |-> TRUE, exc |-> r.exc, code |-> 1, payload |-> PyNone, ran |-> r.ran]
    ELSE [raised |-> FALSE, exc |-> NoExc, code |-> r.code,
          payload |-> _safe_json(with_meta(r.payload, kind)), ran |-> r.ran]

main_parsed(table, kind, feature, option, params) ==
    IF params.raised
    THEN [raised |-> FALSE, exc |-> NoExc, code |-> 2,
          payload |-> PyDict([ok |-> PyBool(FALSE), error |-> PyStr(ExcStr(params.exc))]),
          ran |-> <<>>]
    ELSE main_served(run_option(table, feature, option, params.value), kind)

\* the --run path of main on the manager `table` of kind `kind`
main_run(table, kind, feature, option, params_str) ==
    main_parsed(table, kind, feature, option, _load_params_from_cli(params_str))

\* what --option and --params are given as
CliOptions == {"", "html", "raise_value", "fail", "nope"}
CliParams == {"", "{}", "{\"file_path\": \"a.png\"}", "[1]", "{oops", "5"}

InitCli == InitOn(DefinitionMaps(CliChoices, MaxServed))

\* _build_feature_manager() on DEFAULTS and FEATURE_DEFINITIONS, as main
\* calls it; the manager it constructs on the way is local to it
BuildFeatureManager ==
    /\ pc = "loading"
    /\ scanned = 0
    /\ \E b \in { _build_feature_manager(defaults, feature_definitions) } :
          /\ op' = [name |-> "_build_feature_manager"]
          /\ result' = [raised |-> b.raised, exc |-> b.exc, kind |-> b.kind]
          /\ load_log' = b.log
          /\ features' = b.table
          /\ pc' = IF b.raised THEN "crashed" ELSE "ready"
          /\ load_error' = b.exc
    /\ UNCHANGED << defaults, feature_definitions, debug, scanned, disabled, failures,
                    loaded_features, outcome, ran >>
    /\ UNCHANGED beside_manager

\* main --run --feature F --option O --params P: the manager is built
\* first, outside any try, so the RuntimeError of _build_feature_manager
\* leaves main before the params are read
main_built(b, feature, option, params_str) ==
    IF b.raised
    THEN [raised |-> TRUE, exc |-> b.exc, code |-> 1, payload |-> PyNone, ran |-> <<>>]
    ELSE main_run(b.table, b.kind, feature, option, params_str)

main(dflts, defs, feature, option, params_str) ==
    main_built(_build_feature_manager(dflts, defs), feature, option, params_str)

\* one run of the bridge, a process of its own
Main ==
    /\ pc = "loading"
    /\ scanned = 0
    /\ \E feature \in FeatureArgs, option \in CliOptions, params_str \in CliParams :
       \E r \in { main(defaults, feature_definitions, feature, PyStr(option), params_str) } :
          /\ op' = [name |-> "main", feature |-> feature, option |-> option,
                    params |-> params_str]
          /\ result' = [raised |-> r.raised, exc |-> r.exc, code |-> r.code,
                        payload |-> r.payload]
          /\ ran' = r.ran
          /\ pc' = IF r.raised THEN "crashed" ELSE "exited"
    /\ UNCHANGED << defaults, feature_definitions, debug, scanned, disabled, failures,
                    loaded_features, features, load_error, load_log, outcome >>
    /\ UNCHANGED beside_manager

NextCli ==
    \/ LoadNext
    \/ LoadReturn
    \/ BuildFeatureManager
    \/ Main

SpecCli == InitCli /\ [][NextCli]_vars

\* the application as shipped: the manager is constructed on DEFAULTS and
\* FEATURE_DEFINITIONS and then serves requests
InitShipped == InitOn({ FEATURE_DEFINITIONS })

SpecShipped == InitShipped /\ [][Next]_vars

\* C23: once the load of the shipped definitions is over, each shipped
\* feature is Loaded (in the table, counted as loaded, its self_test called
\* and passed) and get_available_features() lists it, on a host that has none
\* of the external tools.
ShippedFeaturesAreLoaded ==
    pc = "ready" =>
        \A name \in ShippedFeatures :
            /\ name \in TableKeys(features)
            /\ name \in DOMAIN get_available_features(features).d
            /\ \A i \in DOMAIN outcome :
                  feature_definitions[i].name = name => outcome[i].end = "loaded"
            /\ (op.name = "get_available_features" => name \in DOMAIN result.value.d)

\* the exit code the envelope and the params ask for
ParamsAreObject(params_str) == ~_load_params_from_cli(params_str).raised
EnvelopeOk(payload) ==
    /\ payload.t = "dict"
    /\ "ok" \in DOMAIN payload.d
    /\ payload.d["ok"] = PyBool(TRUE)

\* C21: a --run request ends with code 2 and no feature action run when the
\* params are not a parseable JSON object; otherwise it prints an envelope
\* and ends with code 0 when the envelope has ok true and with code 1 when it
\* has ok false.
ExitCodeFollowsEnvelope ==
    op.name = "main" =>
        /\ ~result.raised
        /\ result.payload.t = "dict"
        /\ "ok" \in DOMAIN result.payload.d
        /\ ~ParamsAreObject(op.params) => (result.code = 2 /\ ran = <<>>)
        /\ ParamsAreObject(op.params) =>
              result.code = (IF EnvelopeOk(result.payload) THEN 0 ELSE 1)

\* the calls of register() for `name` in the log of the load
RegisterCalls(name) == { k \in DOMAIN load_log : load_log[k] = Event("register", name) }

\* C28: _build_feature_manager returns the manager with the kind
\* "feature_manager" whenever FeatureManager(defaults, feature_definitions)
\* constructs without error, each feature's register() having been called at
\* most once; it raises the RuntimeError, or returns the API fallback, only
\* when that construction raises.
BuildReturnsPreferredManager ==
    op.name = "_build_feature_manager" =>
        /\ ~load_features(defaults, feature_definitions).raised =>
              /\ ~result.raised
              /\ result.kind = "feature_manager"
              /\ features = load_features(defaults, feature_definitions).table
              /\ \A i \in DOMAIN feature_definitions :
                    Cardinality(RegisterCalls(feature_definitions[i].name)) <= 1
        /\ (result.raised \/ result.kind = "api") =>
              load_features(defaults, feature_definitions).raised

\* ------------------------------------------------------------------------
\* The actions of the shipped features, on a Feature object of each
\* ------------------------------------------------------------------------
\* the most browser sessions followed
MaxSessions == 3

beside_actions == << manager_vars, merge_vars, life_vars, registry_vars, api_vars >>

SearchEngines == {"google", "yandex", "tineye", "bing"}

\* google_reverse_search and yandex_reverse_search quit the driver in their
\* `except` only; tineye_reverse_search and bing_reverse_search in a `finally`
quits_in_finally(engine) == engine \in {"tineye", "bing"}

\* driver.quit(): the session is closed
quit(obj) == [obj EXCEPT !.sessions = @ \ {obj.driver}]

\* `if self.driver: self.driver.quit(); self.driver = None`
quit_and_forget(obj) ==
    IF obj.driver # 0 THEN [quit(obj) EXCEPT !.driver = 0] ELSE obj

\* _setup_driver: self.driver = webdriver.Chrome(...) starts a session and
\* binds it, whatever self.driver held; when Chrome cannot be started the
\* exception leaves self.driver as it was
_setup_driver(obj, started) ==
    IF started
    THEN [obj EXCEPT !.driver = obj.opened + 1, !.sessions = @ \cup {obj.opened + 1},
                     !.opened = @ + 1, !.raised = FALSE]
    ELSE [obj EXCEPT !.raised = TRUE]

\* the start of a search action: the file check, then _setup_driver()
IrisSearch ==
    /\ iris.pc = "idle"
    /\ \E engine \in SearchEngines, has_file \in BOOLEAN, started \in BOOLEAN :
          /\ started => iris.opened < MaxSessions
          /\ iris' = IF ~has_file
                     THEN [iris EXCEPT !.last = engine, !.html = "no file"]
                     ELSE [_setup_driver(iris, started) EXCEPT !.pc = "searching",
                                                                !.engine = engine,
                                                                !.last = "", !.html = ""]
    /\ UNCHANGED tool
    /\ UNCHANGED beside_actions

\* the rest of the search action: the pages are driven, which raises or not,
\* and the action returns its HTML
search_end(obj, failed) ==
    IF quits_in_finally(obj.engine) \/ failed THEN quit_and_forget(obj) ELSE obj

IrisReturn ==
    /\ iris.pc = "searching"
    /\ \E page_raised \in BOOLEAN :
          iris' = [search_end(iris, iris.raised \/ page_raised) EXCEPT
                      !.pc = "idle", !.last = iris.engine, !.raised = FALSE,
                      !.html = IF iris.raised \/ page_raised THEN "error" ELSE "results"]
    /\ UNCHANGED tool
    /\ UNCHANGED beside_actions

\* Feature.shutdown of IRIS: `if self.driver:` quit it; self.driver is kept
IrisShutdown ==
    /\ iris.pc = "idle"
    /\ iris' = [(IF iris.driver # 0 THEN quit(iris) ELSE iris) EXCEPT !.last = "shutdown"]
    /\ UNCHANGED tool
    /\ UNCHANGED beside_actions

\* the external-process calls of the command-line features: the action, the
\* `timeout` given to subprocess.run (<< >> when none is given), and what
\* the action reports when TimeoutExpired is raised
ProcessCalls ==
    { [feature |-> "exiftool_scraper", action |-> "run_default", timeout |-> << >>,
       on_timeout |-> ""],
      [feature |-> "binwalk", action |-> "scan", timeout |-> << 120 >>,
       on_timeout |-> "Timeout while running binwalk scan."],
      [feature |-> "binwalk", action |-> "extract", timeout |-> << 300 >>,
       on_timeout |-> "Timeout while running binwalk extract."],
      [feature |-> "binwalk", action |-> "entropy", timeout |-> << 180 >>,
       on_timeout |-> "Timeout while running binwalk entropy."],
      [feature |-> "zsteg", action |-> "scan", timeout |-> << 120 >>,
       on_timeout |-> "Timeout while running zsteg scan."],
      [feature |-> "zsteg", action |-> "extract", timeout |-> << 120 >>,
       on_timeout |-> "Timeout while running zsteg extract."],
      [feature |-> "steghide", action |-> "info", timeout |-> << 60 >>,
       on_timeout |-> "Timeout while running steghide info."],
      [feature |-> "steghide", action |-> "extract", timeout |-> << 60 >>,
       on_timeout |-> "Timeout while running steghide extract."] }

\* what the started process does: it exits with status 0, exits with
\* another status, or never exits
ProcessBehaviours == {"exits", "fails", "never_exits"}

ProcessCallOf(obj) ==
    CHOOSE c \in ProcessCalls : c.feature = obj.feature /\ c.action = obj.action

\* an action is called: without a valid file, or without the tool on the
\* PATH, it returns at once; otherwise subprocess.run starts the process and
\* waits
ToolCall ==
    /\ tool.pc = "idle"
    /\ \E c \in ProcessCalls, has_file \in BOOLEAN, found \in BOOLEAN,
          proc \in ProcessBehaviours :
          tool' = IF ~has_file
                  THEN [ToolIdle EXCEPT !.feature = c.feature, !.action = c.action,
                                        !.ended = "no_file",
                                        !.errors = "No file selected or invalid path."]
                  ELSE IF ~found
                  THEN [ToolIdle EXCEPT !.feature = c.feature, !.action = c.action,
                                        !.ended = "no_tool",
                                        !.errors = c.feature \o " runtime not found"]
                  ELSE [ToolIdle EXCEPT !.pc = "waiting", !.feature = c.feature,
                                        !.action = c.action, !.timeout = c.timeout,
                                        !.proc = proc]
    /\ UNCHANGED iris
    /\ UNCHANGED beside_actions

\* the process exits and the action returns its result
ToolExit ==
    /\ tool.pc = "waiting"
    /\ tool.proc \in {"exits", "fails"}
    /\ tool' = [tool EXCEPT !.pc = "idle",
                            !.ended = IF tool.proc = "exits" THEN "done" ELSE "failed",
                            !.errors = IF tool.proc = "exits" THEN ""
                                       ELSE "Non-zero exit status"]
    /\ UNCHANGED iris
    /\ UNCHANGED beside_actions

\* the timeout of subprocess.run expires: the process is killed,
\* TimeoutExpired is raised and the action's handler returns its result
ToolTimeout ==
    /\ tool.pc = "waiting"
    /\ tool.timeout # << >>
    /\ tool.proc = "never_exits"
    /\ tool' = [tool EXCEPT !.pc = "idle", !.ended = "timeout",
                            !.errors = ProcessCallOf(tool).on_timeout]
    /\ UNCHANGED iris
    /\ UNCHANGED beside_actions

InitActions == ManagerIdle /\ MergeIdle /\ LifeIdle /\ RegistryIdle

NextActions ==
    \/ IrisSearch
    \/ IrisReturn
    \/ IrisShutdown
    \/ ToolCall
    \/ ToolExit
    \/ ToolTimeout

SpecActions == InitActions /\ [][NextActions]_vars

\* C30: the IRIS feature never has more than one browser session open, and
\* right after shutdown() none of the sessions it opened is open.
IrisHoldsOneSession ==
    /\ Cardinality(iris.sessions) <= 1
    /\ iris.last = "shutdown" => iris.sessions = {}

\* C24: an action that waits for an external process waits under a timeout,
\* so that it can still return when the process never exits; and an action
\* that ended by the timeout reports a message that names the timeout.
ToolCallsAreBounded ==
    /\ tool.pc = "waiting" => (tool.timeout # << >> /\ ENABLED (ToolExit \/ ToolTimeout))
    /\ tool.ended = "timeout" => StrContains(tool.errors, "Timeout")

\* ------------------------------------------------------------------------
\* API (app/core/API.py): the object exposed to the front end
\* ------------------------------------------------------------------------
\* def run_feature(self, feature_name): one argument beside self
run_feature_accepts(given) == given = 1

\* def invoke_feature(self, feature_name, option_id, params): three
invoke_feature_accepts(given) == given = 3

ArityError(message) == PyExc("TypeError", PyStr(message))

\* a call self.feature_manager.invoke_feature(*args): [raised, exc, value, ran]
call_invoke_feature(table, dbg, args) ==
    IF ~invoke_feature_accepts(Len(args))
    THEN [raised |-> TRUE,
          exc |-> ArityError("invoke_feature() missing 1 required positional argument: 'params'"),
          value |-> PyNone, ran |-> <<>>]
    ELSE invoke_feature(table, dbg, args[1].s, args[2], args[3])

\* API.run_feature called by the front end with `args`; `entered` tells
\* whether the body ran, and so whether last_used_feature was assigned
run_feature(table, dbg, path, args) ==
    IF ~run_feature_accepts(Len(args))
    THEN [entered |-> FALSE, raised |-> TRUE,
          exc |-> ArityError("run_feature() takes 2 positional arguments but 3 were given"),
          value |-> PyNone, ran |-> <<>>]
    ELSE [entered |-> TRUE] @@ call_invoke_feature(table, dbg, << args[1], path >>)

\* what the front end calls run_feature with: a feature id, or a feature
\* id and an option id
RunFeatureCalls ==
    { << PyStr(f) >> : f \in FeatureArgs }
        \cup { << PyStr(f), o >> : f \in FeatureArgs, o \in InvokeOptionArgs }

\* what the file dialog returns: "" when it is cancelled
DialogResults == {"", "a.png"}

\* API.select_file; with a file chosen and a feature used before, it asks
\* the window to run that feature again
SelectFile ==
    /\ pc = "ready"
    /\ \E filepath \in DialogResults :
          /\ file_path' = IF filepath # "" THEN PyStr(filepath) ELSE file_path
          /\ op' = [name |-> "select_file", filepath |-> filepath]
          /\ result' = IF filepath # "" /\ last_used_feature # PyNone /\ windows = 0
                       THEN Raised(PyExc("IndexError", PyStr("list index out of range")))
                       ELSE Returned(file_path')
    /\ ran' = <<>>
    /\ UNCHANGED << defaults, feature_definitions, debug, pc, scanned, disabled, failures,
                    loaded_features, features, load_error, load_log, outcome >>
    /\ UNCHANGED << merge_vars, life_vars, registry_vars, action_vars, last_used_feature >>

ApiRunFeature ==
    /\ pc = "ready"
    /\ \E args \in RunFeatureCalls :
       \E r \in { run_feature(features, debug, file_path, args) } :
          /\ op' = [name |-> "run_feature", args |-> args]
          /\ result' = [raised |-> r.raised, exc |-> r.exc, value |-> r.value]
          /\ ran' = r.ran
          /\ last_used_feature' = IF r.entered THEN args[1] ELSE last_used_feature
    /\ UNCHANGED << defaults, feature_definitions, debug, pc, scanned, disabled, failures,
                    loaded_features, features, load_error, load_log, outcome >>
    /\ UNCHANGED << merge_vars, life_vars, registry_vars, action_vars, file_path >>

NextApi ==
    \/ LoadNext
    \/ LoadReturn
    \/ SelectFile
    \/ ApiRunFeature

SpecApi == Init /\ [][NextApi]_vars

\* ------------------------------------------------------------------------
\* FeatureManager.shutdown and API.shutdown
\* ------------------------------------------------------------------------
\* most calls of shutdown() made of one manager
MaxShutdowns == 2

Reverse(seq) == [i \in DOMAIN seq |-> seq[Len(seq) + 1 - i]]

\* a slip of the sweep: teardown in the reverse of load order
shutdown_order_reversed(table) == Reverse(table)

\* `for feature in self.features.values()`: the records in insertion order
shutdown_order(table) == table

\* the position in `order` of the first record whose shutdown callable
\* raises, Len(order) when none does: the loop stops there
SweepEnd(order) ==
    IF \E i \in DOMAIN order : order[i].shutdown.kind = "raise"
    THEN CHOOSE i \in DOMAIN order :
            /\ order[i].shutdown.kind = "raise"
            /\ \A j \in 1..(i - 1) : order[j].shutdown.kind # "raise"
    ELSE Len(order)

NamesOf(records) == [i \in DOMAIN records |-> records[i].name]

\* the sweep over `order`: the features whose shutdown_fn() was called, in
\* call order, and the exception that ended the loop, if any
Sweep(order, end) ==
    [called |-> NamesOf(SelectSeq(SubSeq(order, 1, end),
                                  LAMBDA rec : IsCallable(rec.shutdown))),
     exc |-> IF end \in DOMAIN order /\ order[end].shutdown.kind = "raise"
             THEN PyExc(order[end].shutdown.cls, order[end].shutdown.msg)
             ELSE NoExc]

\* a slip of the lookup: feature.pop("shutdown") takes the callable out of
\* the record
swept_popping(rec) == [rec EXCEPT !.shutdown = NoCallable]

\* `shutdown_fn = feature.get("shutdown")`: the record is read and stays as
\* it is
swept(rec) == rec

\* FeatureManager.shutdown()
shutdown(table) == Sweep(shutdown_order(table), SweepEnd(shutdown_order(table)))

\* a call of shutdown() on the constructed manager
Shutdown ==
    /\ pc = "ready"
    /\ Len(shutdown_log) < MaxShutdowns
    /\ \E r \in { shutdown(features) } :
          shutdown_log' = Append(shutdown_log, [via |-> "manager", called |-> r.called,
                                               exc |-> r.exc])
    /\ features' = [i \in DOMAIN features |-> swept(features[i])]
    /\ UNCHANGED << main_pc, app_api, windows, _exit_handled, exit_events, exit_shutdowns >>
    /\ UNCHANGED << defaults, feature_definitions, debug, pc, scanned, disabled, failures,
                    loaded_features, load_error, load_log, outcome, op, result, ran >>
    /\ UNCHANGED << merge_vars, registry_vars, api_vars, action_vars >>

\* API.shutdown() of an API built on the manager: self.feature_manager.shutdown()
ApiShutdown ==
    /\ pc = "ready"
    /\ Len(shutdown_log) < MaxShutdowns
    /\ \E r \in { shutdown(features) } :
          shutdown_log' = Append(shutdown_log, [via |-> "api", called |-> r.called,
                                               exc |-> r.exc])
    /\ features' = [i \in DOMAIN features |-> swept(features[i])]
    /\ UNCHANGED << main_pc, app_api, windows, _exit_handled, exit_events, exit_shutdowns >>
    /\ UNCHANGED << defaults, feature_definitions, debug, pc, scanned, disabled, failures,
                    loaded_features, load_error, load_log, outcome, op, result, ran >>
    /\ UNCHANGED << merge_vars, registry_vars, api_vars, action_vars >>

\* the requests the table is to survive: listing, invocation and shutdown
NextServe ==
    \/ LoadNext
    \/ LoadReturn
    \/ GetAvailableFeatures
    \/ InvokeFeature
    \/ Shutdown

InitServe == InitOn(DefinitionMaps(ServeChoices, MaxServed))

SpecServe == InitServe /\ [][NextServe]_vars

\* ------------------------------------------------------------------------
\* src/main.py: start_app, handle_exit and the __main__ block
\* ------------------------------------------------------------------------
\* most SIGINTs delivered to the process
MaxSignals == 2

\* FeatureManager.__init__(self, defaults, feature_definitions, debug=False)
\* takes two or three positional arguments
ConstructorAccepts(given) == given >= 2 /\ given <= 3

\* start_app(): FeatureManager(app_constants.APP_FEATURES) is a call with
\* one argument; only when it returns are app_api and the window made
start_app ==
    IF ConstructorAccepts(1)
    THEN [raised |-> FALSE, exc |-> NoExc, app_api |-> "api", windows |-> 1]
    ELSE [raised |-> TRUE,
          exc |-> PyExc("TypeError", PyStr("missing 1 required positional argument")),
          app_api |-> "none", windows |-> 0]

\* handle_exit(signum, frame): the new _exit_handled, the calls of
\* shutdown() it leads to (one asked of the window's JS when there is a
\* window and the JS call is served, one made on app_api when it is set),
\* and whether it ends in sys.exit(0)
handle_exit(handled, wins, api, js_served) ==
    IF handled THEN [handled |-> TRUE, shutdowns |-> 0, exits |-> FALSE]
    ELSE [handled |-> TRUE,
          shutdowns |-> (IF wins > 0 /\ js_served THEN 1 ELSE 0)
                          + (IF api # "none" THEN 1 ELSE 0),
          exits |-> TRUE]

\* try: start_app()
StartApp ==
    /\ main_pc = "start"
    /\ app_api' = start_app.app_api
    /\ windows' = start_app.windows
    /\ main_pc' = IF start_app.raised THEN "failed" ELSE "running"
    /\ UNCHANGED << shutdown_log, _exit_handled, exit_events, exit_shutdowns >>
    /\ UNCHANGED beside_life

\* a SIGINT arrives: the handler installed by signal.signal runs
Sigint ==
    /\ main_pc \in {"start", "running", "failed", "exiting"}
    /\ exit_events < MaxSignals
    /\ \E js_served \in BOOLEAN :
       \E h \in { handle_exit(_exit_handled, windows, app_api, js_served) } :
          /\ _exit_handled' = h.handled
          /\ exit_shutdowns' = exit_shutdowns + h.shutdowns
          /\ main_pc' = IF h.exits THEN "exiting" ELSE main_pc
    /\ exit_events' = exit_events + 1
    /\ UNCHANGED << shutdown_log, app_api, windows >>
    /\ UNCHANGED beside_life

\* finally: handle_exit(None, None), reached when start_app returned (the
\* windows are closed), when its exception was caught, or while SystemExit
\* unwinds; then the process ends
MainFinally ==
    /\ main_pc \in {"running", "failed", "exiting"}
    /\ \E js_served \in BOOLEAN :
       \E h \in { handle_exit(_exit_handled, 0, app_api, js_served) } :
          /\ _exit_handled' = h.handled
          /\ exit_shutdowns' = exit_shutdowns + h.shutdowns
    /\ windows' = 0
    /\ exit_events' = exit_events + 1
    /\ main_pc' = "exited"
    /\ UNCHANGED << shutdown_log, app_api >>
    /\ UNCHANGED beside_life

\* a manager and its shutdown, and src/main.py run as a script
InitExit ==
    /\ ManagerStart(DefinitionMaps(TeardownChoices, MaxFeatures))
    /\ MergeIdle
    /\ RegistryIdle
    /\ shutdown_log = <<>>
    /\ main_pc = "start"
    /\ app_api = "none"
    /\ windows = 0
    /\ _exit_handled = FALSE
    /\ exit_events = 0
    /\ exit_shutdowns = 0

NextExit ==
    \/ LoadNext
    \/ LoadReturn
    \/ Shutdown
    \/ ApiShutdown
    \/ StartApp
    \/ Sigint
    \/ MainFinally

SpecExit == InitExit /\ [][NextExit]_vars

\* ------------------------------------------------------------------------
\* _normalize_output on its own, on the values a feature action may return
\* ------------------------------------------------------------------------
Bytes == PyObject("bytes")

\* returned values: mappings and sequences with and without envelope keys
\* and with values json.dumps rejects, texts of every shape, scalars
OutValues ==
    { PyDict([ok |-> PyStr("yes")]),
      PyDict([ok |-> PyBool(TRUE), data |-> Bytes]),
      PyDict([html |-> PyStr("<p>hi</p>")]),
      PyDict([json |-> PyList(<< PyInt(1) >>)]),
      PyDict([x |-> PyInt(1)]),
      PyDict([x |-> Bytes]),
      PyDict(EmptyDict),
      PyList(<<>>),
      PyList(<< PyInt(1), PyInt(2) >>),
      PyList(<< PyStr("ok") >>),
      PyList(<< Bytes >>),
      PyStr(""),
      PyStr("plain text"),
      PyStr("ok"),
      HtmlOk,
      PyStr("  <b>hi</b> "),
      PyStr("{\"x\": 1}"),
      PyStr(" {\"ok\": false, \"error\": \"e\"}"),
      PyStr("{\"html\": \"<p>hi</p>\"}"),
      PyStr("[1, 2]"),
      PyStr("{}"),
      PyStr("{oops"),
      PyStr("[1"),
      PyStr("{\"x\": 1} trailing"),
      PyNone,
      PyBool(TRUE),
      PyInt(5),
      Bytes }

\* what the action printed to stdout and to stderr while it ran
CapturedOut == { "", "log" }
CapturedErr == { "", "warn" }

InitNormalize == ManagerIdle /\ MergeIdle /\ LifeIdle /\ RegistryIdle

\* one call of _normalize_output(out, captured_out, captured_err)
Normalize ==
    /\ pc = "idle"
    /\ \E out \in OutValues, captured_out \in CapturedOut, captured_err \in CapturedErr :
       \E r \in { _normalize_output(out, captured_out, captured_err) } :
          /\ op' = [name |-> "_normalize_output", out |-> out,
                    captured_out |-> captured_out, captured_err |-> captured_err]
          /\ result' = [raised |-> r.raised, exc |-> r.exc, code |-> r.code,
                        payload |-> r.payload]
    /\ UNCHANGED << defaults, feature_definitions, debug, pc, scanned, disabled, failures,
                    loaded_features, features, load_error, load_log, outcome, ran >>
    /\ UNCHANGED beside_manager

SpecNormalize == InitNormalize /\ [][Normalize]_vars

\* ------------------------------------------------------------------------
\* An EasyOptions on its own (app/core/easy_options.py)
\* ------------------------------------------------------------------------
MaxAdded == 3

RegistryIds == {"run", "info"}
AskedIds == RegistryIds \cup {"missing"}
RegistryLabels == {"Run", "Go"}
RegistryCallables == { Returns(PyStr("a")), Raises("RuntimeError", PyStr("boom")) }
NameArgs == {"", "alpha"}

\* a slip of the assignment: an id that is there keeps its first entry
add_option_first_wins(easy_options, option_id, option_label, option_callable) ==
    IF option_id \in OptionIds(easy_options) THEN easy_options
    ELSE [easy_options EXCEPT
             !.options = Append(@, Option(option_id, option_label, option_callable))]

\* self.options[option_id] = {"id": ..., "label": ..., "callable": ...}: a
\* key that is there keeps its place in the dict and gets the new value
add_option(easy_options, option_id, option_label, option_callable) ==
    IF option_id \in OptionIds(easy_options)
    THEN [easy_options EXCEPT
             !.options = [i \in DOMAIN @ |->
                            IF @[i].id = option_id
                            THEN Option(option_id, option_label, option_callable)
                            ELSE @[i]]]
    ELSE [easy_options EXCEPT
             !.options = Append(@, Option(option_id, option_label, option_callable))]

InitRegistry == ManagerIdle /\ MergeIdle /\ LifeIdle /\ RegistryIdle

AddOption ==
    /\ pc = "idle"
    /\ Len(added) < MaxAdded
    /\ \E id \in RegistryIds, label \in RegistryLabels, callable \in RegistryCallables :
          /\ registry' = add_option(registry, id, label, callable)
          /\ added' = Append(added, Option(id, label, callable))
          /\ op' = [name |-> "add_option", option_id |-> id]
    /\ result' = Returned(PyNone)
    /\ UNCHANGED << defaults, feature_definitions, debug, pc, scanned, disabled, failures,
                    loaded_features, features, load_error, load_log, outcome, ran >>
    /\ UNCHANGED << merge_vars, life_vars, api_vars, action_vars, named >>

SetFeatureName ==
    /\ pc = "idle"
    /\ \E feature_name \in NameArgs :
          /\ registry' = set_feature_name(registry, feature_name)
          /\ op' = [name |-> "set_feature_name", feature_name |-> feature_name]
    /\ named' = TRUE
    /\ result' = Returned(PyNone)
    /\ UNCHANGED << defaults, feature_definitions, debug, pc, scanned, disabled, failures,
                    loaded_features, features, load_error, load_log, outcome, ran >>
    /\ UNCHANGED << merge_vars, life_vars, api_vars, action_vars, added >>

GetOptionCallable ==
    /\ pc = "idle"
    /\ \E id \in AskedIds :
          /\ op' = [name |-> "get_option_callable", option_id |-> id]
          /\ result' = get_option_callable(registry, PyStr(id))
    /\ UNCHANGED << defaults, feature_definitions, debug, pc, scanned, disabled, failures,
                    loaded_features, features, load_error, load_log, outcome, ran >>
    /\ UNCHANGED beside_manager

Render ==
    /\ pc = "idle"
    /\ op' = [name |-> "render"]
    /\ result' = render(registry)
    /\ UNCHANGED << defaults, feature_definitions, debug, pc, scanned, disabled, failures,
                    loaded_features, features, load_error, load_log, outcome, ran >>
    /\ UNCHANGED beside_manager

NextRegistry == AddOption \/ SetFeatureName \/ GetOptionCallable \/ Render

SpecRegistry == InitRegistry /\ [][NextRegistry]_vars

\* ------------------------------------------------------------------------
\* The configuration merge on its own, on arbitrary maps D and O
\* ------------------------------------------------------------------------
MergeKeys == {"enabled", "version", "extra"}
MergeValues == {PyBool(TRUE), PyStr("v2_0")}
\* every map from some of the keys to the values
MergeMaps == UNION { [ks -> MergeValues] : ks \in SUBSET MergeKeys }

InitMerge ==
    /\ ManagerIdle
    /\ LifeIdle
    /\ RegistryIdle
    /\ m_pc = "start"
    /\ m_defaults \in MergeMaps
    /\ m_overrides \in MergeMaps
    /\ m_config = EmptyDict

\* feature_config = apply_defaults({}, defaults)
MergeDefaults ==
    /\ m_pc = "start"
    /\ m_config' = apply_defaults(m_config, m_defaults)
    /\ m_pc' = "defaulted"
    /\ UNCHANGED << m_defaults, m_overrides >>
    /\ UNCHANGED beside_merge

\* feature_config = apply_overrides(feature_config, feature_definitions[feature])
MergeOverrides ==
    /\ m_pc = "defaulted"
    /\ m_config' = apply_overrides(m_config, m_overrides)
    /\ m_pc' = "merged"
    /\ UNCHANGED << m_defaults, m_overrides >>
    /\ UNCHANGED beside_merge

NextMerge ==
    \/ MergeDefaults
    \/ MergeOverrides

SpecMerge == InitMerge /\ [][NextMerge]_vars

\* ------------------------------------------------------------------------
\* Properties
\* ------------------------------------------------------------------------
\* C1: the effective configuration built from defaults D and overrides O
\* has exactly the keys of D; each key holds O's value when O has the key
\* and D's value otherwise; keys that only O has are dropped.
ConfigMergeIsDefaultsOverridden ==
    m_pc = "merged" =>
        /\ DOMAIN m_config = DOMAIN m_defaults
        /\ \A k \in DOMAIN m_defaults :
              m_config[k] = IF k \in DOMAIN m_overrides THEN m_overrides[k] ELSE m_defaults[k]
        /\ \A k \in (DOMAIN m_overrides) \ (DOMAIN m_defaults) : k \notin DOMAIN m_config
        /\ m_config = EffectiveConfig(m_defaults, m_overrides)

\* a merge in which O overrides a key of D with another value, leaves a key
\* of D alone, and has a key D lacks
ConfigMergeWitness ==
    /\ m_pc = "merged"
    /\ \E k \in (DOMAIN m_defaults) \cap (DOMAIN m_overrides) : m_defaults[k] # m_overrides[k]
    /\ (DOMAIN m_defaults) \ (DOMAIN m_overrides) # {}
    /\ (DOMAIN m_overrides) \ (DOMAIN m_defaults) # {}

\* ------------------------------------------------------------------------
\* What the definitions and the modules on disk say about each feature
\* ------------------------------------------------------------------------
DefinedNames == { feature_definitions[i].name : i \in DOMAIN feature_definitions }
DefinitionOf(name) ==
    feature_definitions[CHOOSE i \in DOMAIN feature_definitions : feature_definitions[i].name = name]
ConfigOf(defn) == EffectiveConfig(defaults, defn.overrides)
EnabledIn(defn) == Truthy(ConfigOf(defn)["enabled"])
ImportOf(defn) == import_module(ModulePath(defn.name, ConfigOf(defn)["version"]))
RegistrationOf(defn) == ImportOf(defn).module.register.value

\* the module is there, imports, and has a register()
ReachesRegister(defn) ==
    EnabledIn(defn) /\ ImportOf(defn).error = "" /\ ImportOf(defn).module.has_register

\* register() of the feature raises
RegisterRaises(defn) == ReachesRegister(defn) /\ ImportOf(defn).module.register.kind = "raise"

\* register() returns a dict with a BaseFeature instance
ValidRegistration(defn) ==
    /\ ReachesRegister(defn)
    /\ ImportOf(defn).module.register.kind = "return"
    /\ RegistrationOf(defn).is_dict
    /\ RegistrationOf(defn).instance.is_base_feature

\* the feature passes every check of the load phase
PassesOwnChecks(defn) ==
    /\ ValidRegistration(defn)
    /\ \/ ~IsCallable(RegistrationOf(defn).self_test)
       \/ /\ RegistrationOf(defn).self_test.kind = "return"
          /\ Truthy(RegistrationOf(defn).self_test.value)

Processed == 1..scanned
FailedPasses == { i \in DOMAIN outcome : outcome[i].end = "failed" }

\* C2: when register() of a feature B raises, the exception stays inside
\* B's pass: B is counted as failed (the failed counter is the number of
\* failed passes, B's among them) and is absent from the loaded table,
\* every feature before B that passes its own checks is in the table, and
\* once the load is over so is every such feature after B.
RegisterFailureIsIsolated ==
    \A i \in Processed :
        RegisterRaises(feature_definitions[i]) =>
            /\ outcome[i].end = "failed"
            /\ i \in FailedPasses /\ failures = Cardinality(FailedPasses)
            /\ feature_definitions[i].name \notin TableKeys(loaded_features)
            /\ pc # "crashed" =>
                  \A j \in 1..(i - 1) :
                      PassesOwnChecks(feature_definitions[j]) =>
                          feature_definitions[j].name \in TableKeys(loaded_features)
            /\ pc = "ready" =>
                  /\ feature_definitions[i].name \notin TableKeys(features)
                  /\ \A j \in DOMAIN feature_definitions :
                        PassesOwnChecks(feature_definitions[j]) =>
                            feature_definitions[j].name \in TableKeys(features)

\* a finished load of A, B, C in which register() of B raised and A and C
\* are loaded
RegisterFailureWitness ==
    /\ pc = "ready"
    /\ Len(feature_definitions) = 3
    /\ RegisterRaises(feature_definitions[2])
    /\ PassesOwnChecks(feature_definitions[1])
    /\ PassesOwnChecks(feature_definitions[3])
    /\ TableKeys(features) = {feature_definitions[1].name, feature_definitions[3].name}
    /\ failures = 1

\* C3: construction completes whatever a feature's import, register() or
\* self_test does: no pass of the load loop lets an exception out, the
\* offending feature is counted as failed and the loop goes on.
LoadErrorsNeverPropagate ==
    /\ pc # "crashed"
    /\ \A i \in DOMAIN outcome : outcome[i].end # "raised"

\* C4: when the load phase completes, scanned is the number of definitions,
\* loaded is the size of the loaded table, scanned = disabled + failed +
\* loaded; a valid feature followed by one whose module is missing gives
\* scanned=2, disabled=0, failed=1, loaded=1.
LoadCountersAddUp ==
    pc = "ready" =>
        /\ scanned = Len(feature_definitions)
        /\ Len(features) = Cardinality(TableKeys(features))
        /\ scanned = disabled + failures + Len(features)
        /\ disabled = Cardinality({ i \in DOMAIN feature_definitions :
                                      ~EnabledIn(feature_definitions[i]) })
        /\ ( /\ Len(feature_definitions) = 2
             /\ PassesOwnChecks(feature_definitions[1])
             /\ EnabledIn(feature_definitions[2])
             /\ ImportOf(feature_definitions[2]).error = "ModuleNotFoundError" )
           => (scanned = 2 /\ disabled = 0 /\ failures = 1 /\ Len(features) = 1)

\* the load of "alpha" (valid) and "beta" (module missing) is over
LoadCountersWitness ==
    /\ pc = "ready"
    /\ Len(feature_definitions) = 2
    /\ feature_definitions[1].name = "alpha" /\ PassesOwnChecks(feature_definitions[1])
    /\ feature_definitions[2].name = "beta"
    /\ scanned = 2 /\ disabled = 0 /\ failures = 1 /\ Len(features) = 1

\* the mapping get_available_features is to return: the features that pass
\* every load check, with the version and display_name of their config
ExpectedAvailable ==
    PyDict([name \in { n \in DefinedNames : PassesOwnChecks(DefinitionOf(n)) } |->
              PyDict([version |-> ConfigOf(DefinitionOf(name))["version"],
                      display_name |-> ConfigOf(DefinitionOf(name))["display_name"]])])

\* C5: get_available_features() returns exactly the features that reached
\* Loaded, each with the version and display_name of its effective
\* configuration; a disabled feature or one that failed a load step never
\* appears.
AvailableIsExactlyLoaded ==
    pc = "ready" =>
        /\ get_available_features(features) = ExpectedAvailable
        /\ op.name = "get_available_features" => result = Returned(ExpectedAvailable)
        /\ \A i \in DOMAIN feature_definitions :
              (~EnabledIn(feature_definitions[i]) \/ outcome[i].end # "loaded")
                  => feature_definitions[i].name \notin DOMAIN get_available_features(features).d

\* get_available_features() has answered for a manager with a loaded, a
\* disabled and a failed feature
AvailableWitness ==
    /\ pc = "ready"
    /\ op.name = "get_available_features"
    /\ DOMAIN result.value.d # {}
    /\ \E i \in DOMAIN feature_definitions : ~EnabledIn(feature_definitions[i])
    /\ \E i \in DOMAIN feature_definitions : outcome[i].end = "failed"

\* ------------------------------------------------------------------------
\* What a request is about
\* ------------------------------------------------------------------------
\* the features that reach Loaded
LoadableNames == { n \in DefinedNames : PassesOwnChecks(DefinitionOf(n)) }

IsRequest(name) == pc = "ready" /\ op.name = name
\* the record of the feature a request names
RequestedRecord == TableGet(features, op.feature)
\* the request names a Loaded feature without an Option Registry
RequestsPlainFeature ==
    op.feature \in TableKeys(features) /\ RequestedRecord.easy_options.kind = "none"

\* the result is an envelope: a mapping with a boolean `ok`
IsEnvelope(r) ==
    /\ ~r.raised
    /\ r.payload.t = "dict"
    /\ "ok" \in DOMAIN r.payload.d
    /\ r.payload.d["ok"].t = "bool"

\* C6: whatever a feature action returns or raises, what run_option
\* produces is a mapping that contains `ok`, and `ok` is a boolean.
EnvelopeHasBooleanOk == IsRequest("run_option") => IsEnvelope(result)

\* C7: run_option returns an envelope and never raises; when the action it
\* ran raised, the envelope has ok false.
RunOptionNeverRaises ==
    IsRequest("run_option") =>
        /\ ~result.raised
        /\ \A i \in DOMAIN ran :
              LET rec == TableGet(features, ran[i].feature)
                  callable == IF ran[i].kind = "method" THEN rec.instance.run_default
                              ELSE get_option_callable(rec.easy_options, PyStr(ran[i].action)).value
              IN  callable.kind = "raise" =>
                      /\ result.payload.t = "dict"
                      /\ "ok" \in DOMAIN result.payload.d
                      /\ result.payload.d["ok"] = PyBool(FALSE)

\* the callable the bridge's dispatch rule resolves for the request: the
\* registered option, or the default action for a feature without registry
ResolvesOption ==
    /\ op.feature \in TableKeys(features)
    /\ RequestedRecord.easy_options.kind = "easy"
    /\ ~get_option_callable(RequestedRecord.easy_options, op.option).raised
ResolvesDefault ==
    /\ RequestsPlainFeature
    /\ op.option \in DefaultOptionIds
    /\ IsCallable(RequestedRecord.instance.run_default)
ResolvedCallable ==
    IF ResolvesOption THEN get_option_callable(RequestedRecord.easy_options, op.option).value
    ELSE RequestedRecord.instance.run_default

\* C8: when the resolved callable raises an exception of kind K with
\* message M the envelope is exactly {ok: false, error: "K: M"}; when the
\* option is not in the registry the error is the NotFound message alone.
ErrorIsKindAndMessage ==
    IsRequest("run_option") =>
        /\ ((ResolvesOption \/ ResolvesDefault) /\ ResolvedCallable.kind = "raise") =>
              /\ ~result.raised
              /\ result.payload =
                    PyDict([ok |-> PyBool(FALSE),
                            error |-> PyStr(ResolvedCallable.cls \o ": "
                                            \o ExcStr(PyExc(ResolvedCallable.cls, ResolvedCallable.msg)))])
        /\ ( /\ op.feature \in TableKeys(features)
             /\ RequestedRecord.easy_options.kind = "easy"
             /\ ~ResolvesOption ) =>
              /\ ~result.raised
              /\ result.payload =
                    PyDict([ok |-> PyBool(FALSE),
                            error |-> PyStr(ExcStr(PyExc("KeyError", op.option)))])

\* C9: a request for a feature id that is not Loaded (never defined,
\* disabled, or failed to load) runs no feature action; run_option returns
\* code 1 with exactly {ok: false, error: "Unknown feature '<id>'"} and
\* invoke_feature fails with the "not found" error.
UnknownFeatureIsReported ==
    (pc = "ready" /\ op.name \in {"run_option", "invoke_feature"} /\ op.feature \notin LoadableNames) =>
        /\ ran = <<>>
        /\ op.name = "run_option" =>
              /\ ~result.raised
              /\ result.code = 1
              /\ result.payload =
                    PyDict([ok |-> PyBool(FALSE),
                            error |-> PyStr("Unknown feature '" \o op.feature \o "'")])
        /\ op.name = "invoke_feature" =>
              /\ result.raised
              /\ result.exc = PyExc("Exception", PyStr("Feature '" \o op.feature \o "' not found"))

\* run_option has answered a request for a feature that is defined but
\* disabled
UnknownFeatureWitness ==
    /\ IsRequest("run_option")
    /\ op.feature \in DefinedNames
    /\ ~EnabledIn(DefinitionOf(op.feature))
    /\ result.code = 1
    /\ result.payload.d["error"] = PyStr("Unknown feature 'alpha'")

\* C10: for a Loaded feature without Option Registry, run_option with an
\* option id that is absent, empty, "default", "run_default" or "run" calls
\* the instance's run action (the one invoke_feature dispatches to) once
\* with params and returns its normalized result; a returned "<h2>ok</h2>"
\* gives {ok: true, html: "<h2>ok</h2>"}.
DefaultOptionRunsContractAction ==
    (IsRequest("run_option") /\ RequestsPlainFeature /\ op.option \in DefaultOptionIds) =>
        LET run == RequestedRecord.instance.run
        IN  /\ ran = << Ran(op.feature, "method", "run", OrEmpty(op.params)) >>
            /\ run.kind = "return" =>
                  /\ ~result.raised
                  /\ result.payload = _normalize_output(run.value, run.stdout, "").payload
                  /\ run.value = HtmlOk =>
                        result.payload = PyDict([ok |-> PyBool(TRUE), html |-> HtmlOk])

\* ------------------------------------------------------------------------
\* Dispatch of invoke_feature
\* ------------------------------------------------------------------------
\* what register() of the requested feature returned
RequestedRegistration == RegistrationOf(DefinitionOf(op.feature))
\* the caller's params with the manager's debug flag set
WithDebug(params) == PyDict(DictSet(params.d, "debug", PyBool(debug)))
\* the callable registered under `id` by the feature's module
RegisteredCallable(options, id) ==
    (CHOOSE o \in { options.options[i] : i \in DOMAIN options.options } : o.id = id).callable
\* the result is what one call of `f` gives: its value, or its exception
ResultIsCallOf(f) ==
    /\ result.raised = (f.kind = "raise")
    /\ f.kind = "return" => result.value = f.value
    /\ f.kind = "raise" => result.exc = PyExc(f.cls, f.msg)

\* C11: invoke_feature on a Loaded feature: with an Option Registry and a
\* registered option id, the result is that of the registered callable
\* applied to params, and that callable is the one action run; with an
\* Option Registry and no option id, the result is the menu render() gives
\* and no action runs; with no Option Registry, the result is that of the
\* instance's run action applied to params.
InvokeDispatchesByRegistry ==
    (IsRequest("invoke_feature") /\ op.feature \in LoadableNames) =>
        LET reg == RequestedRegistration
        IN  /\ ( /\ reg.easy_options.kind = "easy"
                 /\ op.option.t = "str"
                 /\ op.option.s \in OptionIds(reg.easy_options) ) =>
                  /\ ran = << Ran(op.feature, "option", op.option.s, WithDebug(op.params)) >>
                  /\ ResultIsCallOf(RegisteredCallable(reg.easy_options, op.option.s))
            /\ (reg.easy_options.kind = "easy" /\ op.option.t = "none") =>
                  /\ ran = <<>>
                  /\ ~result.raised
                  /\ result.value = render(set_feature_name(reg.easy_options, op.feature)).value
            /\ reg.easy_options.kind = "none" =>
                  /\ ran = << Ran(op.feature, "method", "run", WithDebug(op.params)) >>
                  /\ ResultIsCallOf(reg.instance.run)

\* invoke_feature has run the option "html" of zeta and returned its result
InvokeDispatchWitness ==
    /\ IsRequest("invoke_feature")
    /\ op.feature = "zeta"
    /\ op.option = PyStr("html")
    /\ result.value = HtmlOk
    /\ Len(ran) = 1

\* ------------------------------------------------------------------------
\* Shutdown and process exit
\* ------------------------------------------------------------------------
\* how often the teardown callable of feature `name` has been invoked
TeardownCount(name) ==
    Cardinality({ << k, i >> \in (DOMAIN shutdown_log) \X (1..MaxFeatures + 1) :
                    i \in DOMAIN shutdown_log[k].called /\ shutdown_log[k].called[i] = name })

\* C12: after any sequence of two or more calls of shutdown(), made
\* directly or through API.shutdown(), the shutdown callable of each Loaded
\* feature has been invoked at most once.
TeardownAtMostOnce ==
    Len(shutdown_log) >= 2 => \A name \in TableKeys(features) : TeardownCount(name) <= 1

\* C13: once handle_exit has processed an exit event (a SIGINT, or the end
\* of start_app), the manager's shutdown() has been called exactly once, and
\* further exit events add no call.
ExitLeadsToOneShutdown == exit_events >= 1 => exit_shutdowns = 1

\* the definitions of the Loaded features that have a shutdown callable, in
\* definition order
TeardownDefinitions ==
    SelectSeq(feature_definitions,
              LAMBDA d : PassesOwnChecks(d) /\ IsCallable(RegistrationOf(d).shutdown))
DefinitionNames(defs) == [i \in DOMAIN defs |-> defs[i].name]
TeardownRaises(d) == RegistrationOf(d).shutdown.kind = "raise"
\* the definitions `defs` up to and including the first whose teardown raises
UntilRaise(defs) ==
    IF \E i \in DOMAIN defs : TeardownRaises(defs[i])
    THEN SubSeq(defs, 1, CHOOSE i \in DOMAIN defs :
                            TeardownRaises(defs[i]) /\ \A j \in 1..(i - 1) : ~TeardownRaises(defs[j]))
    ELSE defs
\* every call of shutdown() so far invoked the teardowns of `expected`, in
\* that order
EveryShutdownCalled(expected) ==
    \A k \in DOMAIN shutdown_log : shutdown_log[k].called = expected

\* C14 as stated: every call of shutdown() invokes the shutdown callable of
\* every Loaded feature that has one, in load (definition) order, none
\* skipped.
ShutdownSweepsAllInLoadOrder ==
    shutdown_log # <<>> => EveryShutdownCalled(DefinitionNames(TeardownDefinitions))

\* C14 amended: every call of shutdown() invokes the shutdown callables of
\* the Loaded features that have one in load (definition) order, none
\* skipped or reordered, up to and including the first that raises; that
\* exception leaves shutdown() and the teardowns after it are not invoked.
\* When none raises, every one is invoked.
ShutdownSweepsInLoadOrderUntilRaise ==
    shutdown_log # <<>> =>
        /\ EveryShutdownCalled(DefinitionNames(UntilRaise(TeardownDefinitions)))
        /\ \A k \in DOMAIN shutdown_log :
              (shutdown_log[k].exc # NoExc) =
                  (\E i \in DOMAIN shutdown_log[k].called :
                      TeardownRaises(DefinitionOf(shutdown_log[k].called[i])))

\* a call of shutdown() has torn down two features, skipping one between
\* them that has no shutdown callable
ShutdownSweepWitness ==
    /\ Len(feature_definitions) = 3
    /\ \E k \in DOMAIN shutdown_log :
          /\ Len(shutdown_log[k].called) = 2
          /\ shutdown_log[k].called[1] = feature_definitions[1].name
          /\ shutdown_log[k].called[2] = feature_definitions[3].name
          /\ shutdown_log[k].exc = NoExc

\* ------------------------------------------------------------------------
\* Normalization of what an action returns
\* ------------------------------------------------------------------------
IsNormalized == pc = "idle" /\ op.name = "_normalize_output"
EnvelopeKeys == {"ok", "html", "json"}
\* the payload without the auxiliary `_prints`
WithoutPrints(v) ==
    IF v.t = "dict" THEN PyDict([k \in (DOMAIN v.d) \ {"_prints"} |-> v.d[k]]) ELSE v
\* the rule for a structured value: one that has an envelope key is the
\* envelope as it is (`ok` defaulting to true, by the rule that every
\* envelope has `ok`), any other is wrapped under `json`
StructuredRule(v) ==
    IF v.t = "dict" /\ (DOMAIN v.d) \cap EnvelopeKeys # {}
    THEN IF "ok" \in DOMAIN v.d THEN v ELSE PyDict(DictSet(v.d, "ok", PyBool(TRUE)))
    ELSE PyDict([ok |-> PyBool(TRUE), json |-> v])
Wrapped(key, v) == PyDict(DictSet([ok |-> PyBool(TRUE)], key, v))
PayloadIs(expected) == ~result.raised /\ WithoutPrints(result.payload) = expected

\* C15: a mapping or sequence that already contains one of the keys ok,
\* html, json is returned by _normalize_output unchanged as the envelope;
\* one that contains none of them is wrapped as {ok: true, json: <value>}.
StructuredValuePassesOrWraps ==
    (IsNormalized /\ op.out.t \in {"dict", "list"}) => PayloadIs(StructuredRule(op.out))

ActionsSeeDebugFlag ==
    (pc = "ready" /\ op.name \in {"invoke_feature", "run_option"}) =>
        \A i \in DOMAIN ran :
            LET seen == ran[i].params
                given == OrEmpty(op.params)
            IN  /\ seen.t = "dict"
                /\ "debug" \in DOMAIN seen.d
                /\ seen.d["debug"] = PyBool(debug)
                /\ (DOMAIN seen.d) \ {"debug"} = (DOMAIN given.d) \ {"debug"}
                /\ \A k \in (DOMAIN given.d) \ {"debug"} : seen.d[k] = given.d[k]

\* ------------------------------------------------------------------------
\* The option registry
\* ------------------------------------------------------------------------
AddedIds == { added[i].id : i \in DOMAIN added }
\* the most recent add_option call for `id`
LastAdded(id) ==
    added[CHOOSE i \in DOMAIN added :
             /\ added[i].id = id
             /\ \A j \in DOMAIN added : added[j].id = id => j <= i]
IsRegistryCall(name) == pc = "idle" /\ op.name = name

\* C18: after any sequence of add_option calls, get_option_callable(id)
\* returns the callable of the most recent add_option for that id (calling
\* it gives what that callable gives), the registry holds exactly one option
\* for each distinct id, and get_option_callable fails with a KeyError, the
\* NotFound condition, for an id that was never added.
RegistryKeepsLastAdded ==
    /\ OptionIds(registry) = AddedIds
    /\ Len(registry.options) = Cardinality(AddedIds)
    /\ IsRegistryCall("get_option_callable") =>
          IF op.option_id \in AddedIds
          THEN /\ ~result.raised
               /\ result.value = LastAdded(op.option_id).callable
               /\ Call(result.value) = Call(LastAdded(op.option_id).callable)
          ELSE /\ result.raised
               /\ result.exc.cls = "KeyError"

\* an id was added twice with different callables and then looked up
RegistryOverwriteWitness ==
    /\ IsRegistryCall("get_option_callable")
    /\ Len(added) = 3
    /\ \E i, j \in DOMAIN added :
          /\ i < j
          /\ added[i].id = op.option_id
          /\ added[j].id = op.option_id
          /\ added[i].callable # added[j].callable
          /\ ~result.raised
          /\ result.value = added[j].callable

\* the places of `text` where `sub` stands
Occurrences(text, sub) ==
    { i \in 1..Len(text) : i + Len(sub) - 1 <= Len(text) /\ SubSeq(text, i, i + Len(sub) - 1) = sub }
\* the entry of the listing for option `o` of the feature `name`
ListingEntry(name, o) == "runFeature('" \o name \o "', '" \o o.id \o "')\">" \o o.label \o "</button>"
\* what render() gave is a listing of the registered options, one entry
\* each, or the message that there are none
IsListing(r, options) ==
    /\ ~r.raised
    /\ r.value.t = "str"
    /\ IF Len(options.options) = 0
       THEN StrContains(r.value.s, "No options")
       ELSE /\ Cardinality(Occurrences(r.value.s, "<button")) = Len(options.options)
            /\ \A i \in DOMAIN options.options :
                  Cardinality(Occurrences(r.value.s,
                      ListingEntry(options.feature_name.s, options.options[i]))) = 1
IsInvalidState(r) == r.raised /\ r.exc.cls = "ValueError"
RenderKeepsOptions == [][Render => registry'.options = registry.options]_vars

\* C19 as stated: render() fails with an InvalidState error if and only if
\* set_feature_name was never called on the registry; once a name has been
\* bound it returns a listing with one entry for every registered option
\* (or a 'no options' message when none is registered), and it never
\* changes the option table.
RenderFailsIffNeverNamed ==
    /\ [](IsRegistryCall("render") =>
             IF named THEN IsListing(result, registry) ELSE IsInvalidState(result))
    /\ RenderKeepsOptions

\* C19 amended: render() fails with an InvalidState error if and only if
\* the registry has no non-empty feature name, which is so when
\* set_feature_name was never called and when it was last called with an
\* empty name; with a non-empty name bound it returns a listing with one
\* entry for every registered option (or a 'no options' message when none
\* is registered), and it never changes the option table.
RenderFailsIffNoName ==
    /\ [](IsRegistryCall("render") =>
             IF named /\ registry.feature_name # PyStr("")
             THEN IsListing(result, registry)
             ELSE IsInvalidState(result))
    /\ RenderKeepsOptions

\* a registry with a name and two options has been rendered
RenderWitness ==
    /\ IsRegistryCall("render")
    /\ named
    /\ Len(registry.options) = 2
    /\ Len(added) = 3
    /\ IsListing(result, registry)

\* ------------------------------------------------------------------------
\* The listing of the bridge
\* ------------------------------------------------------------------------
\* the {id, label} entries of the options registered in a registry
OptionEntries(options) ==
    { PyDict([id |-> PyStr(options.options[i].id), label |-> PyStr(options.options[i].label)]) :
        i \in DOMAIN options.options }
ListedFeatures == result.value.d["features"].l

\* C20: list_features_payload returns {ok: true, features: [...]} with
\* exactly one entry for each Loaded feature, in load order, carrying its
\* id, label (display name) and description, and an options list that holds
\* one {id, label} entry for every option registered in the feature's
\* Option Registry.
ListingCarriesEveryOption ==
    (pc = "ready" /\ op.name = "list_features_payload") =>
        /\ ~result.raised
        /\ result.value.t = "dict"
        /\ DOMAIN result.value.d = {"ok", "features"}
        /\ result.value.d["ok"] = PyBool(TRUE)
        /\ Len(ListedFeatures) = Len(features)
        /\ \A i \in DOMAIN features :
              /\ ListedFeatures[i].d["id"] = PyStr(features[i].name)
              /\ ListedFeatures[i].d["label"] = features[i].display_name
              /\ ListedFeatures[i].d["description"] = features[i].description
              /\ Len(ListedFeatures[i].d["options"].l) = Len(features[i].easy_options.options)
              /\ { ListedFeatures[i].d["options"].l[j] : j \in DOMAIN ListedFeatures[i].d["options"].l }
                     = OptionEntries(features[i].easy_options)

\* ------------------------------------------------------------------------
\* The self-test during the load
\* ------------------------------------------------------------------------
SelfTestCalls(name) == { k \in DOMAIN load_log : load_log[k] = Event("self_test", name) }

\* C22: a feature whose registration has no callable self_test and is
\* otherwise valid reaches Loaded; a feature whose self_test returns false
\* is dropped and counted as failed; self_test is called at most once for
\* each feature in a load phase.
SelfTestIsAdvisory ==
    /\ \A i \in Processed :
          /\ (ValidRegistration(feature_definitions[i])
                /\ ~IsCallable(RegistrationOf(feature_definitions[i]).self_test)) =>
                 /\ outcome[i].end = "loaded"
                 /\ feature_definitions[i].name \in TableKeys(loaded_features)
                 /\ pc = "ready" => feature_definitions[i].name \in TableKeys(features)
          /\ (ValidRegistration(feature_definitions[i])
                /\ RegistrationOf(feature_definitions[i]).self_test = Returns(PyBool(FALSE))) =>
                 /\ outcome[i].end = "failed"
                 /\ i \in FailedPasses /\ failures = Cardinality(FailedPasses)
                 /\ feature_definitions[i].name \notin TableKeys(loaded_features)
    /\ \A i \in DOMAIN feature_definitions :
          Cardinality(SelfTestCalls(feature_definitions[i].name)) <= 1

\* a finished load in which a feature without self_test is loaded, one
\* whose self_test returned False is not, and one self_test was called
SelfTestWitness ==
    /\ pc = "ready"
    /\ \E i, j \in Processed :
          /\ ValidRegistration(feature_definitions[i])
          /\ ~IsCallable(RegistrationOf(feature_definitions[i]).self_test)
          /\ feature_definitions[i].name \in TableKeys(features)
          /\ ValidRegistration(feature_definitions[j])
          /\ RegistrationOf(feature_definitions[j]).self_test = Returns(PyBool(FALSE))
          /\ SelfTestCalls(feature_definitions[j].name) # {}
          /\ feature_definitions[j].name \notin TableKeys(features)
          /\ failures >= 1

\* ------------------------------------------------------------------------
\* The order of the load
\* ------------------------------------------------------------------------
DefinitionIndex(name) ==
    CHOOSE i \in DOMAIN feature_definitions : feature_definitions[i].name = name
TerminalOutcomes == {"disabled", "failed", "loaded"}

\* C26: features are processed one at a time in definition order and each
\* processed feature ends in exactly one terminal outcome (Disabled, failed
\* or Loaded); for a feature whose effective `enabled` is false the module
\* is never imported and register() and self_test are never called.
LoadIsSequentialWithOneOutcome ==
    /\ Len(outcome) = scanned
    /\ \A i \in DOMAIN outcome :
          /\ outcome[i].name = feature_definitions[i].name
          /\ outcome[i].end \in TerminalOutcomes
          /\ outcome[i].end = "loaded" <=> outcome[i].name \in TableKeys(loaded_features)
    /\ \A k \in DOMAIN load_log :
          /\ DefinitionIndex(load_log[k].feature) <= scanned
          /\ \A l \in DOMAIN load_log :
                k <= l => DefinitionIndex(load_log[k].feature) <= DefinitionIndex(load_log[l].feature)
    /\ \A i \in DOMAIN feature_definitions :
          ~EnabledIn(feature_definitions[i]) =>
              /\ \A k \in DOMAIN load_log : load_log[k].feature # feature_definitions[i].name
              /\ i \in DOMAIN outcome => outcome[i].end = "disabled"

\* ------------------------------------------------------------------------
\* API.run_feature
\* ------------------------------------------------------------------------
\* the option id of a front-end call, None when only the feature id is given
CalledOption(args) == IF Len(args) >= 2 THEN args[2] ELSE PyNone
\* what invoke_feature gives for the call, with params carrying the path
InvokedFor(args, path) ==
    invoke_feature(features, debug, args[1].s, CalledOption(args), PyDict([file_path |-> path]))
SameOutcome(r, expected) ==
    /\ r.raised = expected.raised
    /\ r.exc = expected.exc
    /\ ~r.raised => r.value = expected.value

\* C25: API.run_feature, called by the front end with a feature id and an
\* option id, records the feature as last used and returns what
\* invoke_feature returns for that feature and option with params carrying
\* the currently selected file path.
RunFeatureInvokesSelectedOption ==
    (pc = "ready" /\ op.name = "run_feature") =>
        /\ last_used_feature = op.args[1]
        /\ SameOutcome(result, InvokedFor(op.args, file_path))
        /\ ran = InvokedFor(op.args, file_path).ran

\* ------------------------------------------------------------------------
\* The table after construction
\* ------------------------------------------------------------------------
\* C27: once the manager is constructed, no get_available_features,
\* invoke_feature or shutdown call changes the loaded-feature table (its
\* keys and each record's instance, easy_options, shutdown and metadata),
\* and register() of no feature is run again.
TableIsReadOnlyAfterLoad ==
    /\ [](pc = "ready" =>
             /\ features = loaded_features
             /\ \A i \in DOMAIN feature_definitions :
                   Cardinality(RegisterCalls(feature_definitions[i].name)) <= 1)
    /\ [][pc = "ready" => features' = features /\ load_log' = load_log]_vars

\* a manager with two features in its table has served an invocation that
\* ran an action, after two shutdown sweeps that called a teardown each
TableReadOnlyWitness ==
    /\ pc = "ready"
    /\ Len(features) = 2
    /\ op.name = "invoke_feature"
    /\ Len(ran) = 1
    /\ Len(shutdown_log) = 2
    /\ \A k \in DOMAIN shutdown_log : Len(shutdown_log[k].called) >= 1

\* ------------------------------------------------------------------------
\* The name bound to the registry
\* ------------------------------------------------------------------------
\* C29: every Loaded feature whose record holds a non-null easy_options has
\* had set_feature_name called on it with the feature's id during the
\* load, so invoking the feature with the option omitted returns the
\* registry's menu and does not fail.
LoadedRegistryIsNamed ==
    /\ \A i \in DOMAIN loaded_features :
          loaded_features[i].easy_options.kind # "none" =>
              /\ loaded_features[i].easy_options.feature_name = PyStr(loaded_features[i].name)
              /\ \E k \in DOMAIN load_log :
                    load_log[k] = Event("set_feature_name", loaded_features[i].name)
    /\ (/\ pc = "ready"
        /\ op.name = "invoke_feature"
        /\ op.feature \in TableKeys(features)
        /\ op.option = PyNone
        /\ TableGet(features, op.feature).easy_options.kind # "none") =>
           /\ ~result.raised
           /\ result.value.t = "str"
           /\ \A i \in DOMAIN TableGet(features, op.feature).easy_options.options :
                 StrContains(result.value.s,
                             ListingEntry(op.feature,
                                          TableGet(features, op.feature).easy_options.options[i]))

====
